---- MODULE Spec2Model ----
(***************************************************************************)
(* Model of the copy-trading engine of copy-trading-bot/copy_trader.py:    *)
(* CopyTradingBot.process_fill, calculate_position_size, place_order and   *)
(* _sync_positions_from_exchange, together with the exchange they call.    *)
(*                                                                         *)
(* Units.  Python floats are modelled by exact scaled integers:            *)
(*   sizes   in units of 1/SizeScale coin (SizeScale = 10^4),              *)
(*   prices  in cents,                                                     *)
(*   USD amounts of the configuration in whole dollars.                    *)
(* Strings the code inspects character by character (startswith, in,       *)
(* lower, concatenation) are sequences of one-character strings.           *)
(***************************************************************************)
EXTENDS Integers, Sequences, FiniteSets, TLC

VARIABLES
    config,              \* the attributes __init__ reads from the environment
    processed_fills,     \* self.processed_fills
    open_positions,      \* self.open_positions: the position ledger
    exchange_positions,  \* the exchange's own position per coin (0 = flat)
    orders_sent,         \* per fill key: the calls of self.exchange.order it caused
    decisions,           \* per fill key: how often process_fill went past the dedup
    open_run,            \* per coin: filled size * price of its latest unbroken
                         \* run of filled opening buys
    n_delivered,         \* items of the stream handled so far
    last,                \* what the last process_fill call did
    last_wallet,         \* the account address of the last event delivered
    seen,                \* the fill keys the target's events have carried so far
    running,             \* FALSE once stream_block_fills has ended
    reported,            \* the count _signal_handler printed, NotReported before
    sized,              \* the last call of calculate_position_size made on its
                         \* own: its inputs and its result
    pc,                  \* where the stream loop stands in the event it handles
    pending,             \* the event being handled and the order computed for it
    in_flight,           \* calls of self.exchange.order that have not returned
    resynced,            \* the last call of _sync_positions_from_exchange made
                         \* on its own: its outcome and the ledger before it
    priced,              \* the last order price computed on its own: its inputs
                         \* and the price
    builders,            \* StatsAggregator.builders: address -> BuilderStats
    all_users,           \* StatsAggregator.all_users
    _lock,               \* StatsAggregator._lock: the thread holding it, or NoThread
    calls,               \* per thread: where its call on the aggregator stands,
                         \* and the locals of the call
    reads,               \* per reading thread: what its last get_all_stats returned
    connected_clients,   \* server.py: connected_clients
    liquidation_broadcast,  \* server.py: where broadcast_liquidation stands
    active_connections,  \* main.py: ConnectionManager.active_connections
    manager_broadcast,   \* main.py: where ConnectionManager.broadcast stands
    _channel,            \* grpc_client.py: HyperliquidGrpcClient._channel
    processor            \* main.py: where process_fills_stream stands

\* the state of CopyTradingBot and of the loop that drives it
copy_trader_vars ==
    <<config, processed_fills, open_positions, exchange_positions,
      orders_sent, decisions, open_run, n_delivered, last,
      last_wallet, seen, running, reported, sized, pc, pending, in_flight,
      resynced, priced>>

\* the state of StatsAggregator and of the calls made on it
aggregator_vars == <<builders, all_users, _lock, calls, reads>>

\* the state of the WebSocket side of server.py
server_vars == <<connected_clients, liquidation_broadcast>>

\* the state of ConnectionManager
manager_vars == <<active_connections, manager_broadcast>>

\* the state of process_fills_stream and its gRPC client
processor_vars == <<_channel, processor>>

\* the state of the two backends
backend_vars == <<aggregator_vars, server_vars, manager_vars, processor_vars>>

vars == <<copy_trader_vars, backend_vars>>

----------------------------------------------------------------------------
(* Bounds of the model *)

MaxEvents == 2

(* Program constants *)

min_notional_usd == 10
DryRunAccountValue == 100
FallbackAccountValue == 100
DefaultSzDecimals == 4

(* Stand-ins *)

\* a price or size string float() cannot convert
NotANumber == -1
\* reported before the shutdown signal
NotReported == -1

----------------------------------------------------------------------------
(* Strings as character sequences *)

StartsWith(s, p) == Len(s) >= Len(p) /\ SubSeq(s, 1, Len(p)) = p

Contains(s, p) ==
    \E i \in 1..(Len(s) - Len(p) + 1) : SubSeq(s, i, i + Len(p) - 1) = p

LowerChar(c) ==
    CASE c = "A" -> "a" [] c = "B" -> "b" [] c = "C" -> "c"
      [] c = "D" -> "d" [] c = "E" -> "e" [] c = "F" -> "f"
      [] OTHER -> c

Lower(s) == [i \in 1..Len(s) |-> LowerChar(s[i])]

StrClose == <<"C", "l", "o", "s", "e">>
StrOpen == <<"O", "p", "e", "n">>
StrCloseLong == <<"C", "l", "o", "s", "e", " ", "L", "o", "n", "g">>
StrCloseShort == <<"C", "l", "o", "s", "e", " ", "S", "h", "o", "r", "t">>
StrOpenLong == <<"O", "p", "e", "n", " ", "L", "o", "n", "g">>
StrOpenShort == <<"O", "p", "e", "n", " ", "S", "h", "o", "r", "t">>
StrLongToShort == <<"L", "o", "n", "g", " ", ">", " ", "S", "h", "o", "r", "t">>
StrEmpty == <<>>

----------------------------------------------------------------------------
(* The inputs of the model *)

Coins == {"ETH", "ZORA"}

\* the szDecimals of the universe info.meta() answers with
universe == [c \in Coins |-> IF c = "ETH" THEN 4 ELSE 0]

\* the tickSize of the universe, in hundredths of a cent: the default "100"
\* (one cent) and a coarser tick of five cents
tickSizes == [c \in Coins |-> IF c = "ETH" THEN 100 ELSE 500]

\* a coin the target trades that info.meta() does not list (a spot pair)
SpotCoin == "@107"
TradedCoins == Coins \cup {SpotCoin}

TargetWallet == <<"0", "x", "A", "b">>
Wallets == {<<"0", "x", "A", "B">>, <<"0", "x", "c", "d">>}

Hashes == {<<"a">>, <<"b">>}
Tids == {<<"1">>, <<"2">>}
Prices == {400, 200000}
TargetSizes == {70}

\* dir, side and closedPnl as the feed sends them together: a standard
\* direction fixes the side; an empty direction leaves side and closedPnl free.
DirForms ==
    { [dir |-> StrOpenLong, side |-> "B", closedPnl |-> 0],
      [dir |-> StrOpenShort, side |-> "A", closedPnl |-> 0],
      [dir |-> StrCloseLong, side |-> "A", closedPnl |-> 15],
      [dir |-> StrCloseShort, side |-> "B", closedPnl |-> 15],
      [dir |-> StrLongToShort, side |-> "A", closedPnl |-> 15],
      [dir |-> StrEmpty, side |-> "B", closedPnl |-> 0],
      [dir |-> StrEmpty, side |-> "A", closedPnl |-> 15] }

\* the coins at the prices the target trades them at: both coins at the
\* low price, the whole-unit coin also at a price that rounds its size to 0
Quotes ==
    { [coin |-> c, px |-> p] : c \in Coins, p \in Prices }
    \ { [coin |-> "ETH", px |-> 200000] }

Fills ==
    { [hash |-> h, tid |-> t, coin |-> q.coin, side |-> f.side, sz |-> z,
       px |-> q.px, closedPnl |-> f.closedPnl, dir |-> f.dir] :
        h \in Hashes, t \in Tids, q \in Quotes, f \in DirForms,
        z \in TargetSizes }

\* the answer of info.user_state to the account-value query
AccountResults ==
    { [ok |-> TRUE, value |-> 10], [ok |-> TRUE, value |-> 20],
      [ok |-> TRUE, value |-> 1000], [ok |-> FALSE, value |-> 0] }
NoAccountQuery == [ok |-> FALSE, value |-> 0]

SyncOutcomes == {"ok", "failed"}

InitSnapshots ==
    { [c \in Coins |-> 0], [c \in Coins |-> IF c = "ETH" THEN 30000 ELSE 0] }

\* the coin filter as configured: (COIN_FILTER_MODE, ENABLED_COINS), an unset
\* ENABLED_COINS being the empty set
CoinFilters ==
    { [mode |-> "ALL", coins |-> {"ETH"}],
      [mode |-> "ENABLED", coins |-> {}],
      [mode |-> "ENABLED", coins |-> {"ETH"}] }

Config(d, m, f) ==
    [dry_run |-> d, target_wallet |-> Lower(TargetWallet),
     copy_percentage |-> 50, max_position_usd |-> 50, min_position_usd |-> 10,
     max_open_positions |-> m, slippage_tolerance_bp |-> 50,
     coin_filter_mode |-> f.mode, enabled_coins |-> f.coins]

Configs ==
    { Config(d, 1, f) : d \in BOOLEAN, f \in CoinFilters }
    \cup { Config(d, 2, [mode |-> "ALL", coins |-> {"ETH"}]) : d \in BOOLEAN }

----------------------------------------------------------------------------
(* Dictionary helpers *)

EmptyLedger == [c \in {} |-> 0]

\* dict.get(coin, 0)
Get(ledger, coin) == IF coin \in DOMAIN ledger THEN ledger[coin] ELSE 0

\* ledger[coin] = value
Put(ledger, coin, value) ==
    [c \in (DOMAIN ledger) \cup {coin} |-> IF c = coin THEN value ELSE ledger[c]]

\* del ledger[coin]
Del(ledger, coin) == [c \in (DOMAIN ledger) \ {coin} |-> ledger[c]]

Abs(x) == IF x < 0 THEN -x ELSE x

RECURSIVE Pow10(_)
Pow10(n) == IF n = 0 THEN 1 ELSE 10 * Pow10(n - 1)

\* Python's round(): the nearest integer to num/den, a tie going to the even one
RoundHalfEven(num, den) ==
    LET q == num \div den
        r == num % den
    IN  IF 2 * r < den THEN q
        ELSE IF 2 * r > den THEN q + 1
        ELSE IF q % 2 = 0 THEN q ELSE q + 1

\* one size unit is 10^-DefaultSzDecimals coin
SizeScale == Pow10(DefaultSzDecimals)

----------------------------------------------------------------------------
(* _round_size: round(size, decimals) of the size num/den coin, in size units *)

RoundSizeTo(decimals, num, den) ==
    RoundHalfEven(num * Pow10(decimals), den) * Pow10(DefaultSzDecimals - decimals)

coin_metadata_in_any_mode == universe

\* self.coin_metadata[coin]["szDecimals"]: __init__ leaves the cache empty
\* (line 95) and loads it in live mode only (lines 106, 120)
coin_metadata == IF config.dry_run THEN << >> ELSE universe

_round_size(coin, num, den) ==
    IF coin \in DOMAIN coin_metadata
        THEN RoundSizeTo(coin_metadata[coin], num, den)
        ELSE RoundSizeTo(DefaultSzDecimals, num, den)

(* calculate_position_size.  account is the answer to the account-value     *)
(* query ([ok, value]); px the target price in cents.  The result is        *)
(* [skip, size]: skip stands for the code's None.                           *)

\* a failed account-value query counts as an empty account
AccountValueUsd_no_fallback(account) ==
    IF config.dry_run THEN DryRunAccountValue
    ELSE IF account.ok THEN account.value
    ELSE 0

\* how the account-value query of lines 262-270 went: not made in dry-run
\* mode (self.info is None), answered, or raising into the except clause
AccountQuery(account) ==
    IF config.dry_run THEN "none"
    ELSE IF account.ok THEN "ok"
    ELSE "failed"

AccountValueUsd(account) ==
    IF config.dry_run THEN DryRunAccountValue
    ELSE IF account.ok THEN account.value
    ELSE FallbackAccountValue

\* our_value_usd without the max limit
OurValueCents_unclamped(account) ==
    AccountValueUsd(account) * config.copy_percentage

\* our_value_usd after the max limit, in cents
OurValueCents(account) ==
    LET raw == AccountValueUsd(account) * config.copy_percentage
    IN  IF raw > config.max_position_usd * 100
            THEN config.max_position_usd * 100
            ELSE raw

BelowExchangeMin_unchecked(size, px) == FALSE

\* notional_value < self.min_notional_usd, the notional being size * px:
\* size * px < min_notional_usd * 100 * SizeScale, stated without the product
\* (which leaves 32 bits for a large position at a high price)
BelowExchangeMin(size, px) ==
    px = 0 \/ size < (min_notional_usd * 100 * SizeScale + px - 1) \div px

calculate_position_size_net_of_held(account, px, coin) ==
    LET held == Abs(Get(open_positions, coin))
        our_value == OurValueCents(account)
        our_size == _round_size(coin, our_value, px) - held
    IN  IF our_value < config.min_position_usd * 100
            THEN [skip |-> TRUE, size |-> 0, reason |-> "below_min"]
        ELSE IF BelowExchangeMin(our_size, px)
            THEN [skip |-> TRUE, size |-> our_size, reason |-> "below_exchange_min"]
        ELSE [skip |-> FALSE, size |-> our_size, reason |-> "ok"]

calculate_position_size(account, px, coin) ==
    LET our_value == OurValueCents(account)
        our_size == _round_size(coin, our_value, px)
    IN  IF our_value < config.min_position_usd * 100
            THEN [skip |-> TRUE, size |-> 0, reason |-> "below_min"]
        \* our_value_usd / float(target_price) (line 284) with a zero price
        ELSE IF px = 0
            THEN [skip |-> TRUE, size |-> 0, reason |-> "zero_division"]
        ELSE IF BelowExchangeMin(our_size, px)
            THEN [skip |-> TRUE, size |-> our_size, reason |-> "below_exchange_min"]
        ELSE [skip |-> FALSE, size |-> our_size, reason |-> "ok"]

----------------------------------------------------------------------------
(* _sync_positions_from_exchange: outcome "ok" rebuilds the ledger from the *)
(* snapshot, "failed" is the user_state query raising (the except clause    *)
(* leaves the ledger as it is), "unparsable_k" is entry k of assetPositions *)
(* raising in the loop (float(szi), line 231) after line 223 has cleared    *)
(* the ledger and the entries before k were stored.                         *)

Snapshot(exchange) ==
    [c \in {k \in Coins : exchange[k] # 0} |-> exchange[c]]

\* the snapshot is merged into the ledger, which keeps its other entries
_sync_positions_from_exchange_merging(ledger, exchange, outcome) ==
    IF outcome = "ok"
        THEN [c \in DOMAIN ledger \cup DOMAIN Snapshot(exchange) |->
                IF c \in DOMAIN Snapshot(exchange) THEN exchange[c] ELSE ledger[c]]
        ELSE ledger

\* assetPositions of the user_state answer: the coins held, in the order
\* the exchange lists them
AssetPositions(exchange) ==
    SelectSeq(<<"ETH", "ZORA">>, LAMBDA c : exchange[c] # 0)

ParseFailures == {"unparsable_1", "unparsable_2"}

\* the entry of assetPositions the loop raises at
FailsAt(outcome) == IF outcome = "unparsable_1" THEN 1 ELSE 2

\* the ways a call can go for a snapshot: the engine's outcomes, and a
\* parse failure at any entry the snapshot has
ResyncOutcomes(exchange) ==
    SyncOutcomes
    \cup {o \in ParseFailures : FailsAt(o) <= Len(AssetPositions(exchange))}

_sync_positions_from_exchange(ledger, exchange, outcome) ==
    IF outcome = "ok" THEN Snapshot(exchange)
    ELSE IF outcome \in ParseFailures
        THEN LET listed == AssetPositions(exchange)
                 stored == {i \in 1..(FailsAt(outcome) - 1) : i <= Len(listed)}
             IN  [c \in {listed[i] : i \in stored} |-> exchange[c]]
    ELSE ledger

----------------------------------------------------------------------------
(* process_fill, up to the order *)

\* fill_id = f"{hash}_{tid}"
FillId(fill) == fill.hash \o <<"_">> \o fill.tid

IsTarget_exact(wallet) == wallet = config.target_wallet

IsTarget_any(wallet) == TRUE

\* the wallet filter (lines 480-481)
IsTarget(wallet) == Lower(wallet) = config.target_wallet

\* the duplicate test (line 485)
AlreadyProcessed_never(fill_id) == FALSE

AlreadyProcessed(fill_id) == fill_id \in processed_fills

\* is_closing (line 499)
IsClosing(fill) ==
    IF fill.dir # StrEmpty
        THEN StartsWith(fill.dir, StrClose)
        ELSE fill.closedPnl # 0

\* is_opening (line 500): computed by the code and never read
IsOpening(fill) ==
    IF fill.dir # StrEmpty
        THEN StartsWith(fill.dir, StrOpen)
        ELSE ~IsClosing(fill)

\* the coin whitelist (lines 503-505)
CoinFiltered_any_mode(coin) ==
    config.enabled_coins # {} /\ coin \notin config.enabled_coins

CoinFiltered(coin) ==
    /\ config.coin_filter_mode = "ENABLED"
    /\ config.enabled_coins # {}
    /\ coin \notin config.enabled_coins

\* the position limit (lines 508-511)
MaxPositionsReached_above(ledger, fill) ==
    /\ ~IsClosing(fill)
    /\ fill.coin \notin DOMAIN ledger
    /\ Cardinality(DOMAIN ledger) > config.max_open_positions

MaxPositionsReached(ledger, fill) ==
    /\ ~IsClosing(fill)
    /\ fill.coin \notin DOMAIN ledger
    /\ Cardinality(DOMAIN ledger) >= config.max_open_positions

\* the close branch of the sizing (lines 525-555): the skip reason or "ok"
CloseDecision(ledger, fill) ==
    IF fill.coin \notin DOMAIN ledger THEN "no_position"
    ELSE IF fill.dir # StrEmpty /\ Contains(fill.dir, StrCloseLong)
            /\ ledger[fill.coin] < 0 THEN "direction_mismatch"
    ELSE IF fill.dir # StrEmpty /\ Contains(fill.dir, StrCloseShort)
            /\ ledger[fill.coin] > 0 THEN "direction_mismatch"
    ELSE IF BelowExchangeMin(Abs(ledger[fill.coin]), fill.px) THEN "close_below_min"
    ELSE "ok"

\* our_size of a close (line 532)
CloseSize(ledger, fill) == Abs(ledger[fill.coin])

----------------------------------------------------------------------------
(* place_order *)

\* every order is a buy
IsBuy_always(side) == TRUE

IsBuy(side) == side = "B"

\* the dry-run simulation of the position tracker (lines 321-327)
DryRunUpdate(ledger, coin, is_buy, size, is_closing) ==
    IF ~is_closing
        THEN Put(ledger, coin, Get(ledger, coin) + (IF is_buy THEN size ELSE -size))
        ELSE IF coin \in DOMAIN ledger THEN Del(ledger, coin) ELSE ledger

\* the checks of a live close after its sync (lines 336-347)
PreCloseCheck_no_direction(ledger, coin, is_buy) ==
    IF coin \notin DOMAIN ledger THEN "no_position_on_exchange" ELSE "ok"

PreCloseCheck(ledger, coin, is_buy) ==
    IF coin \notin DOMAIN ledger THEN "no_position_on_exchange"
    ELSE LET our_position == ledger[coin]
             closing_long == our_position > 0 /\ ~is_buy
             closing_short == our_position < 0 /\ is_buy
         IN  IF ~(closing_long \/ closing_short)
                 THEN "direction_mismatch_exchange"
                 ELSE "ok"

\* self.coin_metadata[coin]["tickSize"] in cents: float(tickSize) / 10000 USD
tick_size(coin) == tickSizes[coin] \div 100

\* the nearest lower multiple of the tick
_round_price_truncating(coin, num, den) ==
    IF coin \in DOMAIN coin_metadata
        THEN (num \div (den * tick_size(coin))) * tick_size(coin)
        ELSE num \div den

\* _round_price of the price num/den cents: round(price / tick_size) *
\* tick_size for a coin of the metadata, round(price, 2) for any other
\* (tickSize "100" / 10000) and the 2 decimals of a coin without metadata:
\* the price num/den cents rounded to whole cents
_round_price(coin, num, den) ==
    IF coin \in DOMAIN coin_metadata
        THEN RoundHalfEven(num, den * tick_size(coin)) * tick_size(coin)
        ELSE RoundHalfEven(num, den)

\* the slippage is applied to every order, closing ones too
OrderPriceOf_slipping_closes(coin, is_buy, num, den, is_closing) ==
    IF config.slippage_tolerance_bp > 0
        THEN IF is_buy
                THEN _round_price(coin, num * (10000 + config.slippage_tolerance_bp),
                                  den * 10000)
                ELSE _round_price(coin, num * (10000 - config.slippage_tolerance_bp),
                                  den * 10000)
        ELSE _round_price(coin, num, den)

\* the slippage is added whatever the side
OrderPriceOf_always_up(coin, is_buy, num, den, is_closing) ==
    IF ~is_closing /\ config.slippage_tolerance_bp > 0
        THEN _round_price(coin, num * (10000 + config.slippage_tolerance_bp),
                          den * 10000)
        ELSE _round_price(coin, num, den)

\* order_price (lines 352-370), in cents, for a target price of num/den cents
OrderPriceOf(coin, is_buy, num, den, is_closing) ==
    IF ~is_closing /\ config.slippage_tolerance_bp > 0
        THEN IF is_buy
                THEN _round_price(coin, num * (10000 + config.slippage_tolerance_bp),
                                  den * 10000)
                ELSE _round_price(coin, num * (10000 - config.slippage_tolerance_bp),
                                  den * 10000)
        ELSE _round_price(coin, num, den)

\* order_price for a target price of px whole cents
OrderPrice(coin, is_buy, px, is_closing) ==
    OrderPriceOf(coin, is_buy, px, 1, is_closing)

(* The exchange.  An IOC order is filled at once, in full or in part, or   *)
(* answered with an error; the call can also fail as a whole.  A           *)
(* reduce-only order fills at most the opposite position held.             *)

Min(a, b) == IF a < b THEN a ELSE b

Fillable(exchange, coin, is_buy, size, reduce_only) ==
    IF ~reduce_only THEN size
    ELSE IF is_buy /\ exchange[coin] < 0 THEN Min(size, -exchange[coin])
    ELSE IF ~is_buy /\ exchange[coin] > 0 THEN Min(size, exchange[coin])
    ELSE 0

OrderResponses(exchange, coin, is_buy, size, reduce_only) ==
    LET most == Fillable(exchange, coin, is_buy, size, reduce_only)
    IN  { [status |-> "ok", kind |-> "filled", total_sz |-> z] :
            z \in {most, most \div 2} \ {0} }
        \cup { [status |-> "ok", kind |-> "error", total_sz |-> 0],
               [status |-> "err", kind |-> "none", total_sz |-> 0],
               [status |-> "exception", kind |-> "none", total_sz |-> 0] }

Filled(resp) == resp.status = "ok" /\ resp.kind = "filled"

ExchangeAfter(exchange, coin, is_buy, resp) ==
    IF Filled(resp)
        THEN [exchange EXCEPT ![coin] = @ + (IF is_buy THEN resp.total_sz ELSE -resp.total_sz)]
        ELSE exchange

\* the position tracker after the order response (lines 390-415)
HandleResponse_error_clears(ledger, coin, is_buy, is_closing, resp) ==
    IF Filled(resp)
        THEN IF ~is_closing
                THEN Put(ledger, coin, Get(ledger, coin)
                            + (IF is_buy THEN resp.total_sz ELSE -resp.total_sz))
                ELSE IF coin \in DOMAIN ledger THEN Del(ledger, coin) ELSE ledger
        ELSE IF resp.status = "ok" /\ coin \in DOMAIN ledger
                THEN Del(ledger, coin)
                ELSE ledger

HandleResponse_any_status(ledger, coin, is_buy, is_closing, resp) ==
    IF resp.status = "ok"
        THEN IF ~is_closing
                THEN Put(ledger, coin, Get(ledger, coin)
                            + (IF is_buy THEN resp.total_sz ELSE -resp.total_sz))
                ELSE IF coin \in DOMAIN ledger THEN Del(ledger, coin) ELSE ledger
        ELSE ledger

\* a filled Close takes the filled size off the entry and deletes it only
\* when nothing is left
HandleResponse_close_reduces(ledger, coin, is_buy, is_closing, resp) ==
    LET signed == IF is_buy THEN resp.total_sz ELSE -resp.total_sz
    IN  IF Filled(resp)
            THEN IF ~is_closing \/ Get(ledger, coin) + signed # 0
                    THEN Put(ledger, coin, Get(ledger, coin) + signed)
                    ELSE Del(ledger, coin)
            ELSE ledger

HandleResponse(ledger, coin, is_buy, is_closing, resp) ==
    IF Filled(resp)
        THEN IF ~is_closing
                THEN Put(ledger, coin, Get(ledger, coin)
                            + (IF is_buy THEN resp.total_sz ELSE -resp.total_sz))
                ELSE IF coin \in DOMAIN ledger THEN Del(ledger, coin) ELSE ledger
        ELSE ledger

\* the sync after an opening order (lines 433-435) runs when the call
\* returned status ok, whatever the order's own status
PostSyncRuns_any_result(is_closing, resp) == ~is_closing

\* the sync runs only after an order that was filled
PostSyncRuns_filled_only(is_closing, resp) == Filled(resp) /\ ~is_closing

PostSyncRuns(is_closing, resp) == resp.status = "ok" /\ ~is_closing

ResponseOutcome(resp) ==
    IF resp.status = "ok" THEN resp.kind
    ELSE IF resp.status = "err" THEN "api_fail"
    ELSE "exception"

--------------------------------------------------------------------------------------------------------------------------------------------------
(* The state machine *)

\* the fill keys in the order the stream first delivers them: keys are opaque,
\* so a fill not seen before takes the first key not yet processed
KeyOrder ==
    << <<"a", "_", "1">>, <<"a", "_", "2">>, <<"b", "_", "1">>, <<"b", "_", "2">> >>

Keys == { KeyOrder[i] : i \in DOMAIN KeyOrder }

FreshKeys ==
    { KeyOrder[i] : i \in { j \in DOMAIN KeyOrder :
                              /\ KeyOrder[j] \notin processed_fills
                              /\ \A k \in 1..(j - 1) : KeyOrder[k] \in processed_fills } }

NoOrder ==
    [coin |-> "", is_buy |-> FALSE, size |-> 0, limit_px |-> 0,
     tif |-> "", reduce_only |-> FALSE, held |-> 0, filled |-> 0]

\* the threads that call StatsAggregator.process_fill, and those that read
Writers == {"w1", "w2"}
Readers == {"r1"}
\* no thread holds the lock
NoThread == "none"
\* Python's None where the code expects a string
None == <<>>

\* the locals of a call of StatsAggregator.process_fill that has not begun
NoCall ==
    [pc |-> "idle", builder_address |-> None, volume_usd |-> 0,
     builder_fee |-> 0, user_address |-> None, loaded |-> 0, result |-> None]

\* no read has returned
NoRead == [method |-> "none"]

\* StatsAggregator() (builder_stats.py lines 69-72) with no call begun
AggregatorInit ==
    /\ builders = << >>
    /\ all_users = {}
    /\ _lock = NoThread
    /\ calls = [t \in Writers \cup Readers |-> NoCall]
    /\ reads = [r \in Readers |-> NoRead]

\* the WebSocket clients of a backend
Clients == {"c1", "c2", "c3"}
NoClient == "none"

\* no call of broadcast_liquidation made yet.  at_start, joined and left
\* record who was connected when the call began and who came and went
\* during it.
NoBroadcast ==
    [pc |-> "idle", ws |-> NoClient, remaining |-> {}, size |-> 0,
     sent |-> {}, disconnected |-> {}, at_start |-> {}, joined |-> {},
     left |-> {}, outcome |-> "none"]

\* server.py line 18
ServerStateInit ==
    /\ connected_clients = {}
    /\ liquidation_broadcast = NoBroadcast

\* no call of ConnectionManager.broadcast made yet
NoManagerBroadcast ==
    [pc |-> "idle", connection |-> NoClient, index |-> 0, sent |-> {},
     disconnected |-> <<>>, at_start |-> {}, joined |-> {}, left |-> {},
     outcome |-> "none"]

\* ConnectionManager() (main.py lines 43-44)
ManagerStateInit ==
    /\ active_connections = <<>>
    /\ manager_broadcast = NoManagerBroadcast

\* process_fills_stream about to run line 103 for the first time, with the
\* client as HyperliquidGrpcClient.__init__ leaves it (grpc_client.py 40-43).
\* responses counts the responses received, attempted and failed_before
\* record a connection attempt since the last failure and a failure.
ProcessorStateInit ==
    /\ _channel = "None"
    /\ processor = [pc |-> "connecting", responses |-> 0,
                    attempted |-> FALSE, failed_before |-> FALSE]

\* the backends as their modules leave them at import
BackendInit ==
    AggregatorInit /\ ServerStateInit /\ ManagerStateInit /\ ProcessorStateInit

\* what a call of process_fill that returned at once has read and done
NoLast ==
    [key |-> <<>>, coin |-> "", dir |-> <<>>, side |-> "", px |-> 0,
     is_target |-> FALSE, is_closing |-> FALSE, outcome |-> "init",
     pre_sync |-> "none", post_sync |-> "none",
     after_response |-> open_positions, placed |-> FALSE, order |-> NoOrder]

NoSizing == [query |-> "none", value |-> 0, px |-> 0, coin |-> "", decimals |-> 0,
             result |-> [skip |-> TRUE, size |-> 0, reason |-> "none"]]

NoPending == [wallet |-> <<>>, fill |-> << >>, size |-> 0, pre |-> "none"]

NoResync == [outcome |-> "none", before |-> EmptyLedger]

NoPricing == [coin |-> "", is_buy |-> FALSE, num |-> 0, den |-> 1,
              is_closing |-> FALSE, order_price |-> 0]

\* __init__: the state tracking (lines 93-95) and, in live mode, the first
\* sync (line 121)
Init ==
    /\ config \in Configs
    /\ processed_fills = {}
    /\ orders_sent = [k \in Keys |-> 0]
    /\ decisions = [k \in Keys |-> 0]
    /\ open_run = [c \in Coins |-> 0]
    /\ n_delivered = 0
    /\ last_wallet = <<>>
    /\ seen = {}
    /\ running = TRUE
    /\ reported = NotReported
    /\ sized = NoSizing
    /\ pc = "idle"
    /\ pending = NoPending
    /\ in_flight = 0
    /\ resynced = NoResync
    /\ priced = NoPricing
    /\ BackendInit
    /\ IF config.dry_run
          THEN /\ exchange_positions = [c \in Coins |-> 0]
               /\ open_positions = EmptyLedger
          ELSE /\ exchange_positions \in InitSnapshots
               /\ \E outcome \in SyncOutcomes :
                    open_positions =
                        _sync_positions_from_exchange(EmptyLedger, exchange_positions, outcome)
    /\ last = NoLast

\* the run of filled opening buys of a coin, after an order on it
OpenRunAfter(run, order, px) ==
    [run EXCEPT ![order.coin] =
        IF order.is_buy /\ ~order.reduce_only
            THEN @ + order.filled * px
            ELSE 0]

\* the state one call of process_fill leaves: past is TRUE when the call went
\* past the dedup (the key is then in processed_fills); alive is FALSE when
\* the call raised, which ends the loop of stream_block_fills (lines 617-622)
Return(fill, past, ledger, exchange, record, alive) ==
    /\ n_delivered' = n_delivered + 1
    /\ running' = alive
    /\ UNCHANGED <<backend_vars, resynced, priced>>
    /\ UNCHANGED <<reported, sized, pc, pending, in_flight>>
    /\ processed_fills' = IF past THEN processed_fills \cup {FillId(fill)}
                                  ELSE processed_fills
    /\ decisions' = IF past THEN [decisions EXCEPT ![FillId(fill)] = @ + 1]
                            ELSE decisions
    /\ open_positions' = ledger
    /\ exchange_positions' = exchange
    /\ orders_sent' = IF record.placed
                          THEN [orders_sent EXCEPT ![FillId(fill)] = @ + 1]
                          ELSE orders_sent
    /\ open_run' = IF record.placed
                       THEN OpenRunAfter(open_run, record.order, fill.px)
                       ELSE open_run
    /\ last' = record
    /\ UNCHANGED config

\* a call of process_fill that returned
Commit(fill, past, ledger, exchange, record) ==
    Return(fill, past, ledger, exchange, record, TRUE)

\* the record of a call that read the whole fill
Record(fill, outcome) ==
    [NoLast EXCEPT !.key = FillId(fill), !.coin = fill.coin, !.dir = fill.dir,
                   !.side = fill.side, !.px = fill.px, !.is_target = TRUE,
                   !.is_closing = IsClosing(fill), !.outcome = outcome]

\* a return of process_fill before place_order
Skip(fill, outcome) ==
    Commit(fill, TRUE, open_positions, exchange_positions, Record(fill, outcome))

\* an exception that leaves process_fill after the key was recorded
Raise(fill, outcome) ==
    Return(fill, TRUE, open_positions, exchange_positions, Record(fill, outcome), FALSE)

\* fill_data that is no dictionary: fill_data.get raises (line 484)
NotARecord == [not_a_record |-> TRUE]
IsRecord(fill_data) == "not_a_record" \notin DOMAIN fill_data

\* place_order(coin, side, our_size, price, is_closing) (lines 303-463)
place_order(fill, our_size) ==
    LET coin == fill.coin
        is_buy == IsBuy(fill.side)
        is_closing == IsClosing(fill)
    IN
    IF config.dry_run
    THEN Commit(fill, TRUE,
                DryRunUpdate(open_positions, coin, is_buy, our_size, is_closing),
                exchange_positions,
                [Record(fill, "dry_run") EXCEPT
                    !.order = [NoOrder EXCEPT !.coin = coin, !.is_buy = is_buy,
                                              !.size = our_size],
                    !.after_response =
                        DryRunUpdate(open_positions, coin, is_buy, our_size, is_closing)])
    ELSE
    \E pre \in (IF is_closing THEN SyncOutcomes ELSE {"none"}) :
      LET synced == IF is_closing
                        THEN _sync_positions_from_exchange(open_positions,
                                                           exchange_positions, pre)
                        ELSE open_positions
          check == IF is_closing THEN PreCloseCheck(synced, coin, is_buy) ELSE "ok"
      IN
      IF check # "ok"
      THEN Commit(fill, TRUE, synced, exchange_positions,
                  [Record(fill, check) EXCEPT
                      !.pre_sync = pre, !.after_response = synced])
      ELSE
      \E resp \in OrderResponses(exchange_positions, coin, is_buy, our_size, is_closing) :
        LET answered == HandleResponse(synced, coin, is_buy, is_closing, resp)
            exchange == ExchangeAfter(exchange_positions, coin, is_buy, resp)
            order == [coin |-> coin, is_buy |-> is_buy, size |-> our_size,
                      limit_px |-> OrderPrice(coin, is_buy, fill.px, is_closing),
                      tif |-> "Ioc", reduce_only |-> is_closing,
                      held |-> Get(synced, coin),
                      filled |-> IF Filled(resp) THEN resp.total_sz ELSE 0]
        IN
        \E post \in (IF PostSyncRuns(is_closing, resp) THEN SyncOutcomes ELSE {"none"}) :
          Commit(fill, TRUE,
                 IF PostSyncRuns(is_closing, resp)
                     THEN _sync_positions_from_exchange(answered, exchange, post)
                     ELSE answered,
                 exchange,
                 [Record(fill, ResponseOutcome(resp)) EXCEPT
                     !.pre_sync = pre, !.post_sync = post,
                     !.after_response = answered, !.placed = TRUE, !.order = order])

\* process_fill(wallet_address, fill_data) (lines 465-570)
process_fill(wallet, fill) ==
    IF ~IsTarget(wallet)
        THEN Commit(fill, FALSE, open_positions, exchange_positions,
                    [NoLast EXCEPT !.outcome = "not_target"])
    ELSE IF ~IsRecord(fill)
        THEN Return(fill, FALSE, open_positions, exchange_positions,
                    [NoLast EXCEPT !.is_target = TRUE, !.outcome = "attribute_error"],
                    FALSE)
    ELSE IF AlreadyProcessed(FillId(fill))
        THEN Commit(fill, FALSE, open_positions, exchange_positions,
                    [NoLast EXCEPT !.key = FillId(fill), !.is_target = TRUE,
                                   !.outcome = "duplicate"])
    ELSE IF CoinFiltered(fill.coin) THEN Skip(fill, "coin_filter")
    ELSE IF MaxPositionsReached(open_positions, fill) THEN Skip(fill, "max_positions")
    \* notional = float(size) * float(price) (line 516)
    ELSE IF NotANumber \in {fill.sz, fill.px} THEN Raise(fill, "value_error")
    ELSE IF IsClosing(fill)
        THEN IF CloseDecision(open_positions, fill) # "ok"
                THEN Skip(fill, CloseDecision(open_positions, fill))
                ELSE place_order(fill, CloseSize(open_positions, fill))
        ELSE \E account \in (IF config.dry_run THEN {NoAccountQuery} ELSE AccountResults) :
               LET sizing == calculate_position_size(account, fill.px, fill.coin)
               IN  IF sizing.reason = "zero_division"
                       THEN Raise(fill, sizing.reason)
                   ELSE IF sizing.skip
                       THEN Skip(fill, sizing.reason)
                       ELSE place_order(fill, sizing.size)

\* The events the stream can deliver next.  process_fill returns before it
\* reads anything but the key when the wallet is not the target's or the key
\* was processed, so one fill stands for all of them there.
AnyFill == CHOOSE f \in Fills : TRUE

Redelivered == { [AnyFill EXCEPT !.hash = h, !.tid = t] :
                   h \in Hashes, t \in Tids } 

Deliverable(wallet) ==
    IF ~IsTarget(wallet) THEN {AnyFill}
    ELSE { f \in Fills : FillId(f) \in FreshKeys }
         \cup { f \in Redelivered : FillId(f) \in processed_fills }

\* the fill keys of the target's events, by the addresses and keys as the
\* stream carries them
SeenAfter(wallet, fill_data) ==
    IF Lower(wallet) = Lower(TargetWallet) /\ IsRecord(fill_data)
        THEN seen \cup {FillId(fill_data)}
        ELSE seen

\* stream_block_fills hands each event of the stream to process_fill
ProcessFill ==
    /\ running
    /\ n_delivered < MaxEvents
    /\ \E wallet \in Wallets :
         \E fill \in Deliverable(wallet) :
           /\ process_fill(wallet, fill)
           /\ last_wallet' = wallet
           /\ seen' = SeenAfter(wallet, fill)

Next == ProcessFill

Spec == Init /\ [][Next]_vars

----------------------------------------------------------------------------
(* The stream with malformed items and the operator's signal *)

\* fills of a new key whose price or size is zero or no number
MalformedFills ==
    LET base == { f \in Fills : f.px = 400 }
    IN  { [f EXCEPT !.px = p] : f \in base, p \in {0, NotANumber} }
        \cup { [f EXCEPT !.sz = z] : f \in base, z \in {0, NotANumber} }

\* an item of the stream the loop drops itself: a payload json.loads rejects
\* (lines 600-604), an event that is no list of two (lines 609-610)
Dropped(outcome) ==
    /\ n_delivered' = n_delivered + 1
    /\ last' = [NoLast EXCEPT !.outcome = outcome]
    /\ last_wallet' = <<>>
    /\ UNCHANGED <<backend_vars, resynced, priced>>
    /\ UNCHANGED <<config, processed_fills, open_positions, exchange_positions,
                   orders_sent, decisions, open_run, seen, running, reported,
                   sized, pc, pending, in_flight>>

ParseError == running /\ n_delivered < MaxEvents /\ Dropped("parse_error")

NotAPair == running /\ n_delivered < MaxEvents /\ Dropped("not_a_pair")

\* an event whose fill_data is malformed, handed to process_fill (line 615)
ProcessMalformed ==
    /\ running
    /\ n_delivered < MaxEvents
    /\ \E wallet \in Wallets :
         \E fill \in {NotARecord}
                      \cup { f \in MalformedFills : FillId(f) \in FreshKeys } :
           /\ process_fill(wallet, fill)
           /\ last_wallet' = wallet
           /\ seen' = SeenAfter(wallet, fill)

\* _signal_handler (lines 247-252): print the count and exit
Shutdown ==
    /\ running
    /\ reported' = Cardinality(processed_fills)
    /\ running' = FALSE
    /\ UNCHANGED <<backend_vars, resynced, priced>>
    /\ UNCHANGED <<config, processed_fills, open_positions, exchange_positions,
                   orders_sent, decisions, open_run, n_delivered, last,
                   last_wallet, seen, sized, pc, pending, in_flight>>

StreamConfigs ==
    { Config(d, 1, [mode |-> "ENABLED", coins |-> {"ETH"}]) : d \in BOOLEAN }

StreamInit == Init /\ config \in StreamConfigs

StreamNext == ProcessFill \/ ParseError \/ NotAPair \/ ProcessMalformed \/ Shutdown

StreamSpec == StreamInit /\ [][StreamNext]_vars

----------------------------------------------------------------------------
(* calculate_position_size on its own, called in any state of the engine.   *)
(* The target's fill size is a parameter the code never reads, so it is no  *)
(* parameter of the operator.                                               *)

SizingPercentages == {5, 50}

SizingConfigs ==
    { [Config(d, 1, [mode |-> "ALL", coins |-> {"ETH"}])
          EXCEPT !.copy_percentage = p] : d \in BOOLEAN, p \in SizingPercentages }

\* the answers to the account-value query of a sizing: those of the engine
\* and an equity of 150 USD
SizingAccountResults == AccountResults \cup {[ok |-> TRUE, value |-> 150]}

SizingLedgers ==
    { EmptyLedger, [c \in {"ETH"} |-> 30000], [c \in Coins |-> -50000] }

SizingInit ==
    /\ config \in SizingConfigs
    /\ processed_fills \in {{}, {KeyOrder[1]}, {KeyOrder[1], KeyOrder[2]}}
    /\ open_positions \in SizingLedgers
    /\ exchange_positions = [c \in Coins |-> Get(open_positions, c)]
    /\ orders_sent = [k \in Keys |-> 0]
    /\ decisions = [k \in Keys |-> IF k \in processed_fills THEN 1 ELSE 0]
    /\ open_run = [c \in Coins |-> 0]
    /\ n_delivered = Cardinality(processed_fills)
    /\ last = NoLast
    /\ last_wallet = <<>>
    /\ seen = processed_fills
    /\ running = TRUE
    /\ reported = NotReported
    /\ sized = NoSizing
    /\ pc = "idle"
    /\ pending = NoPending
    /\ in_flight = 0
    /\ resynced = NoResync
    /\ priced = NoPricing
    /\ BackendInit

\* the szDecimals _round_size rounds the coin to (lines 188-193)
SizeDecimals(coin) ==
    IF coin \in DOMAIN coin_metadata THEN coin_metadata[coin] ELSE DefaultSzDecimals

ComputeOpenSize ==
    /\ \E account \in (IF config.dry_run THEN {NoAccountQuery}
                                            ELSE SizingAccountResults) :
         \E px \in Prices : \E coin \in TradedCoins :
           sized' = [query |-> AccountQuery(account),
                      value |-> AccountValueUsd(account), px |-> px, coin |-> coin,
                      decimals |-> SizeDecimals(coin),
                      result |-> calculate_position_size(account, px, coin)]
    /\ UNCHANGED <<backend_vars, resynced, priced>>
    /\ UNCHANGED <<config, processed_fills, open_positions, exchange_positions,
                   orders_sent, decisions, open_run, n_delivered, last,
                   last_wallet, seen, running, reported, pc, pending, in_flight>>

SizingNext == ComputeOpenSize

SizingSpec == SizingInit /\ [][SizingNext]_vars

----------------------------------------------------------------------------
(* The stream loop step by step.  process_fill is a plain call in the loop  *)
(* of stream_block_fills (line 615) and self.exchange.order a blocking call *)
(* of place_order (line 380): Receive is the loop taking an event up to the *)
(* recording of its key, Decide the rest of process_fill and place_order up *)
(* to the order call, Respond the return of that call and what follows it.  *)

AtLoopHead_any_time == TRUE

\* the loop is at `for event in events` (line 608)
AtLoopHead == pc = "idle"

SeqConfigs ==
    { Config(d, 2, [mode |-> "ALL", coins |-> {"ETH"}]) : d \in BOOLEAN }

SeqInit == Init /\ config \in SeqConfigs

\* lines 608-487: the event is taken, filtered by wallet and key, its key
\* recorded
Receive ==
    /\ running
    /\ n_delivered < MaxEvents
    /\ AtLoopHead
    /\ \E wallet \in Wallets :
         \E fill \in Deliverable(wallet) :
           /\ last_wallet' = wallet
           /\ seen' = SeenAfter(wallet, fill)
           /\ IF ~IsTarget(wallet) \/ AlreadyProcessed(FillId(fill))
                 THEN process_fill(wallet, fill)
                 ELSE /\ n_delivered' = n_delivered + 1
                      /\ processed_fills' = processed_fills \cup {FillId(fill)}
                      /\ decisions' = [decisions EXCEPT ![FillId(fill)] = @ + 1]
                      /\ pc' = "recorded"
                      /\ pending' = [NoPending EXCEPT !.wallet = wallet, !.fill = fill]
                      /\ UNCHANGED <<backend_vars, resynced, priced>>
                      /\ UNCHANGED <<config, open_positions, exchange_positions,
                                     orders_sent, open_run, last, running,
                                     reported, sized, in_flight>>

\* process_fill returns to the loop
Finish(ledger, record) ==
    /\ open_positions' = ledger
    /\ last' = record
    /\ pc' = "idle"
    /\ pending' = NoPending
    /\ UNCHANGED <<backend_vars, resynced, priced>>
    /\ UNCHANGED <<config, processed_fills, exchange_positions, orders_sent,
                   decisions, open_run, n_delivered, last_wallet, seen, running,
                   reported, sized, in_flight>>

\* lines 303-387: place_order up to the order call
Submit(fill, our_size) ==
    LET coin == fill.coin
        is_buy == IsBuy(fill.side)
        is_closing == IsClosing(fill)
    IN
    IF config.dry_run
    THEN LET simulated == DryRunUpdate(open_positions, coin, is_buy, our_size, is_closing)
         IN  Finish(simulated,
                    [Record(fill, "dry_run") EXCEPT
                        !.order = [NoOrder EXCEPT !.coin = coin, !.is_buy = is_buy,
                                                  !.size = our_size],
                        !.after_response = simulated])
    ELSE
    \E pre \in (IF is_closing THEN SyncOutcomes ELSE {"none"}) :
      LET synced == IF is_closing
                        THEN _sync_positions_from_exchange(open_positions,
                                                           exchange_positions, pre)
                        ELSE open_positions
          check == IF is_closing THEN PreCloseCheck(synced, coin, is_buy) ELSE "ok"
      IN
      IF check # "ok"
      THEN Finish(synced, [Record(fill, check) EXCEPT
                              !.pre_sync = pre, !.after_response = synced])
      ELSE /\ open_positions' = synced
           /\ orders_sent' = [orders_sent EXCEPT ![FillId(fill)] = @ + 1]
           /\ in_flight' = in_flight + 1
           /\ pc' = "submitted"
           /\ pending' = [pending EXCEPT !.size = our_size, !.pre = pre]
           /\ UNCHANGED <<backend_vars, resynced, priced>>
           /\ UNCHANGED <<config, processed_fills, exchange_positions, decisions,
                          open_run, n_delivered, last, last_wallet, seen, running,
                          reported, sized>>

\* lines 490-569: the filters, the limit and the sizing of the recorded event
Decide ==
    /\ pc = "recorded"
    /\ LET fill == pending.fill
       IN  IF CoinFiltered(fill.coin)
               THEN Finish(open_positions, Record(fill, "coin_filter"))
           ELSE IF MaxPositionsReached(open_positions, fill)
               THEN Finish(open_positions, Record(fill, "max_positions"))
           ELSE IF IsClosing(fill)
               THEN IF CloseDecision(open_positions, fill) # "ok"
                       THEN Finish(open_positions,
                                   Record(fill, CloseDecision(open_positions, fill)))
                       ELSE Submit(fill, CloseSize(open_positions, fill))
           ELSE \E account \in (IF config.dry_run THEN {NoAccountQuery}
                                                  ELSE AccountResults) :
                  LET sizing == calculate_position_size(account, fill.px, fill.coin)
                  IN  IF sizing.skip
                          THEN Finish(open_positions, Record(fill, sizing.reason))
                          ELSE Submit(fill, sizing.size)

\* lines 388-463: the order call returns, the response is handled
Respond ==
    /\ pc = "submitted"
    /\ LET fill == pending.fill
           coin == fill.coin
           is_buy == IsBuy(fill.side)
           is_closing == IsClosing(fill)
       IN
       \E resp \in OrderResponses(exchange_positions, coin, is_buy,
                                  pending.size, is_closing) :
         LET answered == HandleResponse(open_positions, coin, is_buy, is_closing, resp)
             exchange == ExchangeAfter(exchange_positions, coin, is_buy, resp)
             order == [coin |-> coin, is_buy |-> is_buy, size |-> pending.size,
                       limit_px |-> OrderPrice(coin, is_buy, fill.px, is_closing),
                       tif |-> "Ioc", reduce_only |-> is_closing,
                       held |-> Get(open_positions, coin),
                       filled |-> IF Filled(resp) THEN resp.total_sz ELSE 0]
         IN
         \E post \in (IF PostSyncRuns(is_closing, resp) THEN SyncOutcomes ELSE {"none"}) :
           /\ open_positions' =
                 IF PostSyncRuns(is_closing, resp)
                     THEN _sync_positions_from_exchange(answered, exchange, post)
                     ELSE answered
           /\ exchange_positions' = exchange
           /\ open_run' = OpenRunAfter(open_run, order, fill.px)
           /\ last' = [Record(fill, ResponseOutcome(resp)) EXCEPT
                          !.pre_sync = pending.pre, !.post_sync = post,
                          !.after_response = answered, !.placed = TRUE,
                          !.order = order]
           /\ in_flight' = in_flight - 1
           /\ pc' = "idle"
           /\ pending' = NoPending
           /\ UNCHANGED <<backend_vars, resynced, priced>>
           /\ UNCHANGED <<config, processed_fills, orders_sent, decisions,
                          n_delivered, last_wallet, seen, running, reported, sized>>

SeqNext == Receive \/ Decide \/ Respond

SeqSpec == SeqInit /\ [][SeqNext]_vars

----------------------------------------------------------------------------
(* _sync_positions_from_exchange and the order price on their own, for any *)
(* ledger, snapshot, slippage tolerance and target price.                   *)

\* the engine before its first event, whatever its configuration, ledger
\* and exchange
FreshEngine ==
    /\ processed_fills = {}
    /\ orders_sent = [k \in Keys |-> 0]
    /\ decisions = [k \in Keys |-> 0]
    /\ open_run = [c \in Coins |-> 0]
    /\ n_delivered = 0
    /\ last = NoLast
    /\ last_wallet = <<>>
    /\ seen = {}
    /\ running = TRUE
    /\ reported = NotReported
    /\ sized = NoSizing
    /\ pc = "idle"
    /\ pending = NoPending
    /\ in_flight = 0
    /\ resynced = NoResync
    /\ priced = NoPricing
    /\ BackendInit

\* ledgers of any content: entries the exchange does not hold, entries of
\* another size or sign than the exchange's
SyncLedgers ==
    UNION { [held -> {-50000, 70, 30000}] : held \in SUBSET Coins }

SyncSnapshots == [Coins -> {-50000, 0, 30000}]

SyncInit ==
    /\ config = Config(FALSE, 1, [mode |-> "ALL", coins |-> {"ETH"}])
    /\ open_positions \in SyncLedgers
    /\ exchange_positions \in SyncSnapshots
    /\ FreshEngine

\* a call of _sync_positions_from_exchange (lines 206-245)
Resync ==
    /\ \E outcome \in ResyncOutcomes(exchange_positions) :
         /\ open_positions' =
                _sync_positions_from_exchange(open_positions, exchange_positions,
                                              outcome)
         /\ resynced' = [outcome |-> outcome, before |-> open_positions]
    /\ UNCHANGED <<backend_vars, priced>>
    /\ UNCHANGED <<config, processed_fills, exchange_positions, orders_sent,
                   decisions, open_run, n_delivered, last, last_wallet, seen,
                   running, reported, sized, pc, pending, in_flight>>

SyncNext == Resync

SyncSpec == SyncInit /\ [][SyncNext]_vars

\* SLIPPAGE_TOLERANCE_PCT in hundredths of a percent: none, the default
\* 0.5 %, 1 %
SlippageTolerances == {0, 50, 100}

PricingConfigs ==
    { [Config(FALSE, 1, [mode |-> "ALL", coins |-> {"ETH"}])
          EXCEPT !.slippage_tolerance_bp = t] : t \in SlippageTolerances }

\* target prices as <<num, den>>, num/den cents: whole cents, half a cent
\* above a whole one, a price below the tick
PricingPrices == { <<400, 1>>, <<200000, 1>>, <<1005, 2>>, <<5345, 1000>> }

PricingInit ==
    /\ config \in PricingConfigs
    /\ exchange_positions \in InitSnapshots
    /\ \E outcome \in SyncOutcomes :
         open_positions =
             _sync_positions_from_exchange(EmptyLedger, exchange_positions, outcome)
    /\ FreshEngine

\* place_order lines 310 and 352-370: the price of the order of a live call
ComputeOrderPrice ==
    /\ \E coin \in TradedCoins, side \in {"A", "B"}, price \in PricingPrices,
          is_closing \in BOOLEAN :
         priced' = [coin |-> coin, is_buy |-> IsBuy(side),
                    num |-> price[1], den |-> price[2], is_closing |-> is_closing,
                    order_price |-> OrderPriceOf(coin, IsBuy(side), price[1],
                                                 price[2], is_closing)]
    /\ UNCHANGED <<backend_vars, resynced>>
    /\ UNCHANGED <<config, processed_fills, open_positions, exchange_positions,
                   orders_sent, decisions, open_run, n_delivered, last,
                   last_wallet, seen, running, reported, sized, pc, pending,
                   in_flight>>

PricingNext == ComputeOrderPrice

PricingSpec == PricingInit /\ [][PricingNext]_vars

\* the two roundings of a live engine side by side
RoundingNext == ComputeOrderPrice \/ ComputeOpenSize

RoundingSpec == PricingInit /\ [][RoundingNext]_vars

----------------------------------------------------------------------------
(* The classification of lines 494-500 on the event as the feed sends it:   *)
(* a dictionary of strings in which dir and closedPnl may be missing.       *)

\* fill_data.get(key, default)
DictGet(fill_data, key, default) ==
    IF key \in DOMAIN fill_data THEN fill_data[key] ELSE default

Digits == <<"0", "1", "2", "3", "4", "5", "6", "7", "8", "9">>

DigitOf(c) == (CHOOSE i \in 1..10 : Digits[i] = c) - 1

\* the number a sequence of digits writes
RECURSIVE Natural(_)
Natural(s) ==
    IF s = <<>> THEN 0
    ELSE Natural(SubSeq(s, 1, Len(s) - 1)) * 10 + DigitOf(s[Len(s)])

\* the integral part of the numeral alone
float_integral(s) ==
    LET negative == s # <<>> /\ s[1] = "-"
        body == IF negative THEN Tail(s) ELSE s
        dots == {i \in 1..Len(body) : body[i] = "."}
        dot == IF dots = {} THEN Len(body) + 1 ELSE CHOOSE i \in dots : TRUE
        hundredths == Natural(SubSeq(body, 1, dot - 1)) * 100
    IN  IF negative THEN -hundredths ELSE hundredths

\* float(s) of a decimal numeral of at most two decimals, in hundredths
float(s) ==
    LET negative == s # <<>> /\ s[1] = "-"
        body == IF negative THEN Tail(s) ELSE s
        dots == {i \in 1..Len(body) : body[i] = "."}
        dot == IF dots = {} THEN Len(body) + 1 ELSE CHOOSE i \in dots : TRUE
        whole == SubSeq(body, 1, dot - 1)
        frac == SubSeq(body, dot + 1, Len(body))
        hundredths == Natural(whole) * 100 + Natural(frac) * Pow10(2 - Len(frac))
    IN  IF negative THEN -hundredths ELSE hundredths

\* the closedPnl strings of the feed: none, empty, zero in two spellings,
\* a gain, a gain below one, a loss
ClosedPnlForms ==
    { <<>>, <<"0">>, <<"0", ".", "0">>, <<"1", "5">>, <<"0", ".", "5">>,
      <<"-", "2", ".", "5">> }

RawDirs == {StrEmpty, StrOpenLong, StrCloseShort}

\* events with and without the keys dir and closedPnl
RawEvents ==
    LET base == { [coin |-> c, side |-> s] : c \in Coins, s \in {"A", "B"} }
        with_dir(e) ==
            {e} \cup { [k \in DOMAIN e \cup {"dir"} |->
                          IF k = "dir" THEN d ELSE e[k]] : d \in RawDirs }
        with_pnl(e) ==
            {e} \cup { [k \in DOMAIN e \cup {"closedPnl"} |->
                          IF k = "closedPnl" THEN p ELSE e[k]] : p \in ClosedPnlForms }
    IN  UNION { with_pnl(e) : e \in UNION { with_dir(b) : b \in base } }

\* what lines 494-495 and 499 read of the event: the direction, and the
\* closedPnl as the number `closed_pnl and float(closed_pnl)` compares with 0
Extracted(fill_data) ==
    LET closed_pnl == DictGet(fill_data, "closedPnl", <<"0">>)
        direction == DictGet(fill_data, "dir", StrEmpty)
    IN  [dir |-> direction,
         closedPnl |-> IF closed_pnl = <<>> THEN 0 ELSE float(closed_pnl)]

ClassifyInit ==
    /\ config = Config(FALSE, 1, [mode |-> "ALL", coins |-> {"ETH"}])
    /\ open_positions = EmptyLedger
    /\ exchange_positions = [c \in Coins |-> 0]
    /\ FreshEngine

\* lines 490-500 of a call of process_fill
Classify ==
    /\ \E fill_data \in RawEvents :
         /\ pending' = [NoPending EXCEPT !.fill = fill_data]
         /\ last' = [NoLast EXCEPT !.coin = fill_data.coin,
                                   !.side = fill_data.side,
                                   !.dir = Extracted(fill_data).dir,
                                   !.is_closing = IsClosing(Extracted(fill_data)),
                                   !.outcome = "classified"]
    /\ UNCHANGED <<backend_vars, resynced, priced>>
    /\ UNCHANGED <<config, processed_fills, open_positions, exchange_positions,
                   orders_sent, decisions, open_run, n_delivered, last_wallet,
                   seen, running, reported, sized, pc, in_flight>>

ClassifyNext == Classify

ClassifySpec == ClassifyInit /\ [][ClassifyNext]_vars

----------------------------------------------------------------------------
(* StatsAggregator of hyperliquid-builders-dashboard/backend/builder_stats.py, *)
(* called from several threads: every load and store of a call is a step.      *)
(* Volumes are in 1/1000 USD, fees in 10^-7 USD, sizes in whole coins.         *)

StrUSDC == <<"U", "S", "D", "C">>
StrHYPE == <<"H", "Y", "P", "E">>
StrUSD == <<"U", "S", "D">>

\* the builder addresses fills carry; None is a fill without a builder
BuilderAddresses == {<<"0", "x", "A">>, <<"0", "x", "a">>, <<"0", "x", "b">>}
\* the keys of BUILDERS (config.py line 135)
BUILDERS == {<<"0", "x", "a">>}
UserAddresses == {<<"0", "x", "C">>, <<"0", "x", "d">>}

AggregatorFills ==
    [builder : BuilderAddresses \cup {None}, px : {2005, NotANumber}, sz : {3},
     builderFee : {15}, feeToken : {StrUSDC, StrHYPE}]

\* config.py lines 138-140
is_known_builder(address) == Lower(address) \in BUILDERS

\* lines 145-164, with the defaults of BuilderStats (lines 38-42)
_create_builder_stats(address) ==
    [address |-> address, is_known |-> is_known_builder(address),
     trade_count |-> 0, total_volume_usd |-> 0, total_fees_usd |-> 0,
     unique_users |-> {}, last_active |-> NoThread]

\* round(x, 2) of an amount in 1/1000 USD and round(x, 6) of one in 10^-7 USD
RoundToStep(x) == RoundHalfEven(x, 10) * 10

\* BuilderStats.to_dict (lines 44-57)
to_dict(stats) ==
    [address |-> stats.address, isKnown |-> stats.is_known,
     tradeCount |-> stats.trade_count,
     totalVolumeUsd |-> RoundToStep(stats.total_volume_usd),
     totalFeesUsd |-> RoundToStep(stats.total_fees_usd),
     uniqueUsers |-> Cardinality(stats.unique_users),
     lastActive |-> stats.last_active]

\* a with-block on self._lock is entered without a check
LockFree_unchecked == TRUE

\* threading.Lock: a with-block is entered only while no thread holds it
LockFree == _lock = NoThread

AggregatorStep(t, call) ==
    /\ calls' = [calls EXCEPT ![t] = call]
    /\ UNCHANGED <<copy_trader_vars, server_vars, manager_vars, processor_vars>>

\* process_fill lines 97-123: everything before the lock, on locals only
BeginProcessFill(t) ==
    \E fill_data \in AggregatorFills, user_address \in UserAddresses \cup {None} :
        /\ calls[t].pc = "idle"
        /\ IF fill_data.builder = None \/ fill_data.px = NotANumber
              THEN AggregatorStep(t, [NoCall EXCEPT !.pc = "returned"])
              ELSE AggregatorStep(t,
                     [NoCall EXCEPT
                        !.pc = "acquire",
                        !.builder_address = Lower(fill_data.builder),
                        !.volume_usd = fill_data.px * fill_data.sz,
                        !.builder_fee =
                            IF StartsWith(fill_data.feeToken, StrUSD)
                                THEN fill_data.builderFee ELSE 0,
                        !.user_address = user_address])
        /\ UNCHANGED <<builders, all_users, _lock, reads>>

\* line 125
AcquireLock(t) ==
    /\ calls[t].pc = "acquire"
    /\ LockFree
    /\ _lock' = t
    /\ AggregatorStep(t, [calls[t] EXCEPT !.pc = "create"])
    /\ UNCHANGED <<builders, all_users, reads>>

\* lines 127-128
CreateEntry(t) ==
    LET address == calls[t].builder_address
    IN  /\ calls[t].pc = "create"
        /\ builders' = IF address \in DOMAIN builders THEN builders
                       ELSE Put(builders, address, _create_builder_stats(address))
        /\ AggregatorStep(t, [calls[t] EXCEPT !.pc = "load"])
        /\ UNCHANGED <<all_users, _lock, reads>>

\* lines 131-132: the load of stats.trade_count
LoadCount(t) ==
    /\ calls[t].pc = "load"
    /\ AggregatorStep(t, [calls[t] EXCEPT
            !.pc = "store",
            !.loaded = builders[calls[t].builder_address].trade_count])
    /\ UNCHANGED <<builders, all_users, _lock, reads>>

\* line 132: the store of stats.trade_count
StoreCount(t) ==
    /\ calls[t].pc = "store"
    /\ builders' = [builders EXCEPT
            ![calls[t].builder_address].trade_count = calls[t].loaded + 1]
    /\ AggregatorStep(t, [calls[t] EXCEPT !.pc = "totals"])
    /\ UNCHANGED <<all_users, _lock, reads>>

\* lines 133-135
AddTotals(t) ==
    /\ calls[t].pc = "totals"
    /\ builders' = [builders EXCEPT
            ![calls[t].builder_address].total_volume_usd = @ + calls[t].volume_usd,
            ![calls[t].builder_address].total_fees_usd = @ + calls[t].builder_fee,
            ![calls[t].builder_address].last_active = t]
    /\ AggregatorStep(t, [calls[t] EXCEPT !.pc = "users"])
    /\ UNCHANGED <<all_users, _lock, reads>>

\* lines 138-143: the user is tracked, the lock released, the address returned
TrackUser(t) ==
    LET user == calls[t].user_address
    IN  /\ calls[t].pc = "users"
        /\ IF user # None
              THEN /\ builders' = [builders EXCEPT
                          ![calls[t].builder_address].unique_users =
                              @ \cup {Lower(user)}]
                   /\ all_users' = all_users \cup {Lower(user)}
              ELSE UNCHANGED <<builders, all_users>>
        /\ _lock' = NoThread
        /\ AggregatorStep(t, [calls[t] EXCEPT
                !.pc = "returned", !.result = calls[t].builder_address])
        /\ UNCHANGED reads

\* lines 168 and 185
ReadLock(r) ==
    /\ calls[r].pc = "idle"
    /\ LockFree
    /\ _lock' = r
    /\ AggregatorStep(r, [calls[r] EXCEPT !.pc = "reading"])
    /\ UNCHANGED <<builders, all_users, reads>>

\* get_all_stats line 169
get_all_stats(r) ==
    /\ calls[r].pc = "reading"
    /\ reads' = [reads EXCEPT ![r] =
            [method |-> "get_all_stats",
             data |-> [a \in DOMAIN builders |-> to_dict(builders[a])]]]
    /\ _lock' = NoThread
    /\ AggregatorStep(r, [calls[r] EXCEPT !.pc = "idle"])
    /\ UNCHANGED <<builders, all_users>>

RECURSIVE SumOf(_, _)
\* the sum of f over the set S
SumOf(f, S) ==
    IF S = {} THEN 0
    ELSE LET x == CHOOSE y \in S : TRUE IN f[x] + SumOf(f, S \ {x})

\* get_chart_data lines 186-244: the known builders one by one, the unknown
\* ones together, the totals
get_chart_data(r) ==
    LET known == {a \in DOMAIN builders : builders[a].is_known}
        other == (DOMAIN builders) \ known
        volume == [a \in DOMAIN builders |-> builders[a].total_volume_usd]
        trades == [a \in DOMAIN builders |-> builders[a].trade_count]
        fees == [a \in DOMAIN builders |-> builders[a].total_fees_usd]
    IN  /\ calls[r].pc = "reading"
        /\ reads' = [reads EXCEPT ![r] =
              [method |-> "get_chart_data",
               builders |-> [a \in known |->
                    [volume |-> RoundToStep(volume[a]), trades |-> trades[a],
                     fees |-> RoundToStep(fees[a]),
                     users |-> Cardinality(builders[a].unique_users)]],
               other |-> [volume |-> RoundToStep(SumOf(volume, other)),
                          trades |-> SumOf(trades, other),
                          fees |-> RoundToStep(SumOf(fees, other)),
                          users |-> Cardinality(UNION {builders[a].unique_users :
                                                        a \in other})],
               totals |-> [volume |-> RoundToStep(SumOf(volume, DOMAIN builders)),
                           fees |-> RoundToStep(SumOf(fees, DOMAIN builders)),
                           users |-> Cardinality(all_users)]]]
        /\ _lock' = NoThread
        /\ AggregatorStep(r, [calls[r] EXCEPT !.pc = "idle"])
        /\ UNCHANGED <<builders, all_users>>

AggregatorSpecInit ==
    Init /\ config = Config(TRUE, 1, [mode |-> "ALL", coins |-> {"ETH"}])

AggregatorNext ==
    \/ \E t \in Writers :
         \/ BeginProcessFill(t) \/ AcquireLock(t) \/ CreateEntry(t)
         \/ LoadCount(t) \/ StoreCount(t) \/ AddTotals(t) \/ TrackUser(t)
    \/ \E r \in Readers : ReadLock(r) \/ get_all_stats(r) \/ get_chart_data(r)

AggregatorSpec == AggregatorSpecInit /\ [][AggregatorNext]_vars

----------------------------------------------------------------------------
(* The WebSocket side of hyperliquid-liquidation-bot/backend/server.py: one  *)
(* event loop runs handle_websocket and broadcast_liquidation, so a step     *)
(* goes from one await to the next.                                          *)

SendResults == {"sent", "error"}

ServerStep(b) ==
    /\ liquidation_broadcast' = b
    /\ UNCHANGED <<copy_trader_vars, aggregator_vars, manager_vars, processor_vars>>

\* handle_websocket lines 22-26.  While broadcast_liquidation awaits a send
\* the new element lands in the set's table before or after the place its
\* iterator has reached.
ClientConnects(ws) ==
    /\ ws \notin connected_clients
    /\ connected_clients' = connected_clients \cup {ws}
    /\ \E ahead \in BOOLEAN :
         ServerStep(
           IF liquidation_broadcast.pc = "awaiting"
              THEN [liquidation_broadcast EXCEPT
                      !.remaining = IF ahead THEN @ \cup {ws} ELSE @,
                      !.joined = @ \cup {ws}]
              ELSE liquidation_broadcast)

\* handle_websocket lines 35-37
ClientDisconnects(ws) ==
    /\ ws \in connected_clients
    /\ connected_clients' = connected_clients \ {ws}
    /\ ServerStep(
         IF liquidation_broadcast.pc = "awaiting"
            THEN [liquidation_broadcast EXCEPT
                    !.remaining = @ \ {ws}, !.left = @ \cup {ws}]
            ELSE liquidation_broadcast)

\* the for statement of line 49 asks the set iterator for the next element:
\* RuntimeError when the size of the set is no longer the one the iterator
\* was made with, line 57 when no element is left, else the await of line 51
NextClient(b, clients) ==
    IF Cardinality(clients) # b.size
        THEN {[b EXCEPT !.pc = "idle", !.ws = NoClient, !.outcome = "RuntimeError"]}
    ELSE IF b.remaining = {}
        THEN {[b EXCEPT !.pc = "idle", !.ws = NoClient, !.outcome = "completed"]}
    ELSE {[b EXCEPT !.pc = "awaiting", !.ws = ws, !.remaining = @ \ {ws}] :
            ws \in b.remaining}

\* lines 43-51: up to the first awaited send
broadcast_liquidation ==
    /\ liquidation_broadcast.pc = "idle"
    /\ UNCHANGED connected_clients
    /\ IF connected_clients = {}
          THEN ServerStep([NoBroadcast EXCEPT !.outcome = "no_clients"])
          ELSE \E b \in NextClient(
                    [NoBroadcast EXCEPT !.size = Cardinality(connected_clients),
                                        !.remaining = connected_clients,
                                        !.at_start = connected_clients],
                    connected_clients) :
                 ServerStep(b)

\* lines 51-57: the awaited send returns or raises, the loop goes on to the
\* next client or ends
SendReturns ==
    \E result \in SendResults :
        LET ws == liquidation_broadcast.ws
            after == [liquidation_broadcast EXCEPT
                        !.sent = IF result = "sent" THEN @ \cup {ws} ELSE @,
                        !.disconnected = IF result = "error" THEN @ \cup {ws} ELSE @]
        IN  /\ liquidation_broadcast.pc = "awaiting"
            /\ \E b \in NextClient(after, connected_clients) :
                 /\ ServerStep(b)
                 /\ connected_clients' =
                        IF b.outcome = "completed"
                            THEN connected_clients \ b.disconnected
                            ELSE connected_clients

ServerInit ==
    Init /\ config = Config(TRUE, 1, [mode |-> "ALL", coins |-> {"ETH"}])

ServerNext ==
    \/ \E ws \in Clients : ClientConnects(ws) \/ ClientDisconnects(ws)
    \/ broadcast_liquidation
    \/ SendReturns

ServerSpec == ServerInit /\ [][ServerNext]_vars

----------------------------------------------------------------------------
(* ConnectionManager of hyperliquid-builders-dashboard/backend/main.py: one  *)
(* event loop runs websocket_endpoint and broadcast, so a step goes from one *)
(* await to the next.                                                        *)

InList(list, ws) == \E i \in 1..Len(list) : list[i] = ws

\* list.remove: the list without the first occurrence of ws
Remove(list, ws) ==
    LET i == CHOOSE j \in 1..Len(list) :
                list[j] = ws /\ \A k \in 1..(j - 1) : list[k] # ws
    IN  SubSeq(list, 1, i - 1) \o SubSeq(list, i + 1, Len(list))

\* ConnectionManager.disconnect (lines 52-56)
disconnect(list, ws) == IF InList(list, ws) THEN Remove(list, ws) ELSE list

RECURSIVE DisconnectAll(_, _)
\* lines 72-73
DisconnectAll(list, failed) ==
    IF failed = <<>> THEN list
    ELSE DisconnectAll(disconnect(list, Head(failed)), Tail(failed))

Elements(list) == {list[i] : i \in 1..Len(list)}

ManagerStep(b) ==
    /\ manager_broadcast' = b
    /\ UNCHANGED <<copy_trader_vars, aggregator_vars, server_vars, processor_vars>>

\* websocket_endpoint line 229 -> ConnectionManager.connect (lines 46-50)
connect(ws) ==
    /\ ~InList(active_connections, ws)
    /\ active_connections' = Append(active_connections, ws)
    /\ ManagerStep(
         IF manager_broadcast.pc = "awaiting"
            THEN [manager_broadcast EXCEPT !.joined = @ \cup {ws}]
            ELSE manager_broadcast)

\* websocket_endpoint lines 242-243
WebSocketDisconnect(ws) ==
    /\ InList(active_connections, ws)
    /\ active_connections' = disconnect(active_connections, ws)
    /\ ManagerStep(
         IF manager_broadcast.pc = "awaiting"
            THEN [manager_broadcast EXCEPT !.left = @ \cup {ws}]
            ELSE manager_broadcast)

\* the for statement of line 65 asks the list iterator for the next element:
\* the element at its index if the list is that long, else the loop is over
NextConnection(b, list) ==
    IF b.index < Len(list)
        THEN [b EXCEPT !.pc = "awaiting", !.connection = list[b.index + 1],
                       !.index = @ + 1]
        ELSE [b EXCEPT !.pc = "idle", !.connection = NoClient,
                       !.outcome = "completed"]

\* lines 60-67: up to the first awaited send
broadcast ==
    /\ manager_broadcast.pc = "idle"
    /\ UNCHANGED active_connections
    /\ IF active_connections = <<>>
          THEN ManagerStep([NoManagerBroadcast EXCEPT !.outcome = "no_clients"])
          ELSE ManagerStep(NextConnection(
                  [NoManagerBroadcast EXCEPT
                        !.at_start = Elements(active_connections)],
                  active_connections))

\* lines 65-73: the awaited send returns or raises, the loop goes on to the
\* next connection or ends with the cleanup
SendJsonReturns ==
    \E result \in SendResults :
        LET conn == manager_broadcast.connection
            after == [manager_broadcast EXCEPT
                        !.sent = IF result = "sent" THEN @ \cup {conn} ELSE @,
                        !.disconnected =
                            IF result = "error" THEN Append(@, conn) ELSE @]
            b == NextConnection(after, active_connections)
        IN  /\ manager_broadcast.pc = "awaiting"
            /\ ManagerStep(b)
            /\ active_connections' =
                    IF b.pc = "idle"
                        THEN DisconnectAll(active_connections, b.disconnected)
                        ELSE active_connections

ManagerInit ==
    Init /\ config = Config(TRUE, 1, [mode |-> "ALL", coins |-> {"ETH"}])

ManagerNext ==
    \/ \E ws \in Clients : connect(ws) \/ WebSocketDisconnect(ws)
    \/ broadcast
    \/ SendJsonReturns

ManagerSpec == ManagerInit /\ [][ManagerNext]_vars

----------------------------------------------------------------------------
(* process_fills_stream of hyperliquid-builders-dashboard/backend/main.py    *)
(* with HyperliquidGrpcClient of grpc_client.py.  No WebSocket client is     *)
(* connected here, so the broadcast of line 127 returns at line 61.          *)

\* StatsAggregator.process_fill (builder_stats.py lines 97-143) run by one
\* task from its first line to its return: the statistics after the call
aggregate_fill(stats, fill_data, user_address) ==
    IF fill_data.builder = None \/ fill_data.px = NotANumber THEN stats
    ELSE LET address == Lower(fill_data.builder)
             fee == IF StartsWith(fill_data.feeToken, StrUSD)
                        THEN fill_data.builderFee ELSE 0
             entry == IF address \in DOMAIN stats.builders
                          THEN stats.builders[address]
                          ELSE _create_builder_stats(address)
             users == IF user_address # None THEN {Lower(user_address)} ELSE {}
         IN  [builders |->
                Put(stats.builders, address,
                    [entry EXCEPT
                        !.trade_count = @ + 1,
                        !.total_volume_usd = @ + fill_data.px * fill_data.sz,
                        !.total_fees_usd = @ + fee,
                        !.last_active = "block_time",
                        !.unique_users = @ \cup users]),
              all_users |-> stats.all_users \cup users]

\* the events of a block: [user_address, fill_data] pairs and items that
\* are no such pair (main.py lines 113-119)
ProcessorEvents ==
    { [pair |-> TRUE, user_address |-> u, fill_data |-> f] :
        u \in UserAddresses, f \in AggregatorFills }
    \cup { [pair |-> FALSE] }

ProcessorBlocks ==
    { <<>> } \cup { <<e>> : e \in ProcessorEvents }
             \cup { <<e, f>> : e, f \in ProcessorEvents }

RECURSIVE AggregateEvents(_, _)
\* main.py lines 111-123
AggregateEvents(stats, events) ==
    IF events = <<>> THEN stats
    ELSE AggregateEvents(
            IF Head(events).pair
                THEN aggregate_fill(stats, Head(events).fill_data,
                                    Head(events).user_address)
                ELSE stats,
            Tail(events))

\* what ends the work on a connection: the stream raises grpc.RpcError
\* (grpc_client.py lines 108-110), a response that is no JSON object makes
\* the processing raise AttributeError, or the server ends the stream
StreamErrors == {"RpcError", "AttributeError"}

\* only grpc.RpcError is caught
Caught_rpc_only(error) == error = "RpcError"

\* main.py line 134: except Exception
Caught(error) == error \in StreamErrors

ProcessorStep(p) ==
    /\ processor' = p
    /\ UNCHANGED <<copy_trader_vars, _lock, calls, reads, server_vars, manager_vars>>

\* main.py line 103 -> HyperliquidGrpcClient.connect (grpc_client.py 45-56)
Connect ==
    /\ processor.pc = "connecting"
    /\ _channel' = "open"
    /\ ProcessorStep([processor EXCEPT !.pc = "streaming", !.attempted = TRUE])
    /\ UNCHANGED <<builders, all_users>>

\* main.py lines 105-132: one block of the stream is processed
ProcessBlock ==
    \E events \in ProcessorBlocks :
        LET stats == AggregateEvents([builders |-> builders, all_users |-> all_users],
                                     events)
        IN  /\ processor.pc = "streaming"
            /\ processor.responses < MaxEvents
            /\ builders' = stats.builders
            /\ all_users' = stats.all_users
            /\ ProcessorStep([processor EXCEPT !.responses = @ + 1])
            /\ UNCHANGED _channel

\* grpc_client.py lines 104-106: a response that is no JSON is skipped
JSONDecodeError ==
    /\ processor.pc = "streaming"
    /\ processor.responses < MaxEvents
    /\ ProcessorStep([processor EXCEPT !.responses = @ + 1])
    /\ UNCHANGED <<builders, all_users, _channel>>

\* the stream or the processing raises: caught at line 134 or, if not
\* caught, the end of the task
StreamFails ==
    \E error \in StreamErrors :
        /\ processor.pc = "streaming"
        /\ ProcessorStep([processor EXCEPT
                !.pc = IF Caught(error) THEN "failed" ELSE "terminated",
                !.attempted = FALSE, !.failed_before = TRUE])
        /\ UNCHANGED <<builders, all_users, _channel>>

\* the server ends the stream: the async for of line 105 is over and the
\* while of line 101 goes round
StreamEnds ==
    /\ processor.pc = "streaming"
    /\ ProcessorStep([processor EXCEPT !.pc = "connecting", !.attempted = FALSE])
    /\ UNCHANGED <<builders, all_users, _channel>>

\* main.py lines 135-136 -> HyperliquidGrpcClient.disconnect (58-64)
Disconnect ==
    /\ processor.pc = "failed"
    /\ _channel' = "None"
    /\ ProcessorStep([processor EXCEPT !.pc = "waiting"])
    /\ UNCHANGED <<builders, all_users>>

\* main.py lines 137-138: the sleep is over, the while goes round
SleepOver ==
    /\ processor.pc = "waiting"
    /\ ProcessorStep([processor EXCEPT !.pc = "connecting"])
    /\ UNCHANGED <<builders, all_users, _channel>>

ProcessorInit ==
    Init /\ config = Config(TRUE, 1, [mode |-> "ALL", coins |-> {"ETH"}])

ProcessorNext ==
    \/ Connect \/ ProcessBlock \/ JSONDecodeError \/ StreamFails \/ StreamEnds
    \/ Disconnect \/ SleepOver

\* the event loop resumes the task when the call it awaits has completed:
\* connect, disconnect and the sleep complete by themselves
ProcessorSpec ==
    /\ ProcessorInit /\ [][ProcessorNext]_vars
    /\ WF_vars(Connect) /\ WF_vars(Disconnect) /\ WF_vars(SleepOver)

----------------------------------------------------------------------------
(* Properties *)

Delivered == n_delivered' = n_delivered + 1

Live == ~config.dry_run

\* the last call went past the target and duplicate filters
LastPastDedup == last.is_target /\ last.outcome \notin {"init", "duplicate"}

\* C1: a second delivery of a fill of the target account (its key is already
\* in processed_fills) submits no order and changes neither the ledger nor
\* the processed-key set; over the whole run a key yields at most one
\* decision and at most one order.
C1_SecondDeliveryIsNoOp ==
    /\ [](\A k \in Keys : decisions[k] <= 1 /\ orders_sent[k] <= 1)
    /\ [][(Delivered /\ last'.is_target /\ last'.key \in processed_fills)
            => /\ open_positions' = open_positions
               /\ processed_fills' = processed_fills
               /\ orders_sent' = orders_sent
               /\ exchange_positions' = exchange_positions]_vars

\* a fill that caused an order has been delivered again
C1_Witness ==
    /\ last.outcome = "duplicate"
    /\ last.key \in processed_fills
    /\ orders_sent[last.key] = 1

\* C2: a Close order is submitted as a Sell only when the reconciled ledger
\* entry of the symbol is positive and as a Buy only when it is negative; a
\* "Close Short" is never submitted against a long, nor a "Close Long"
\* against a short.
C2_CloseNeverIncreasesPosition ==
    (last.placed /\ last.is_closing) =>
        /\ last.order.reduce_only
        /\ last.order.is_buy => last.order.held < 0
        /\ ~last.order.is_buy => last.order.held > 0
        /\ Contains(last.dir, StrCloseShort) => last.order.held < 0
        /\ Contains(last.dir, StrCloseLong) => last.order.held > 0

\* a Close was submitted as a Buy against a short
C2_Witness ==
    /\ last.placed /\ last.is_closing
    /\ last.order.is_buy /\ last.order.held < 0

\* C3: every Close order submitted has the size of the absolute ledger entry
\* of the symbol as reconciled immediately before the submission.
C3_CloseSizeIsReconciledSize ==
    (last.placed /\ last.is_closing) => last.order.size = Abs(last.order.held)

\* C4: in live mode every decision about a Close, the discard for an absent
\* symbol included, is taken on the ledger as a resync leaves it: no Close is
\* discarded as "no position to close" while the exchange holds a nonzero
\* position in the symbol.
C4_NoDiscardWhileExchangeHolds ==
    (Live /\ LastPastDedup /\ last.is_closing
          /\ last.outcome \in {"no_position", "no_position_on_exchange"}) =>
        exchange_positions[last.coin] = 0

\* the direction of the last fill starts with "Open", or is empty without a
\* closed PnL
LastIsOpen ==
    IF last.dir # StrEmpty THEN StartsWith(last.dir, StrOpen) ELSE ~last.is_closing

\* C5: after an Open decision has been processed (skipped or submitted), the
\* ledger holds at most max_open_positions entries of nonzero size.
C5_PositionCount ==
    (LastPastDedup /\ LastIsOpen /\ last.outcome # "coin_filter") =>
        Cardinality({c \in DOMAIN open_positions : open_positions[c] # 0})
            <= config.max_open_positions

\* the outcomes of an Open that reached the sizing step
SizingSkips == {"below_min", "below_exchange_min"}
SizedOutcomes == SizingSkips \cup {"dry_run", "filled", "error", "api_fail", "exception"}

\* C6: an Open that reaches the sizing step is either skipped, with no order,
\* or gets a size with size * target price >= 10 USD; no Open order has a
\* notional below 10 USD, none has size 0.
C6_NotionalFloor ==
    (LastPastDedup /\ ~last.is_closing /\ last.outcome \in SizedOutcomes) =>
        \/ last.outcome \in SizingSkips /\ ~last.placed
        \/ /\ last.outcome \notin SizingSkips
           /\ last.order.size > 0
           /\ last.order.size * last.px >= min_notional_usd * 100 * SizeScale

\* an Open order of exactly 10 USD was submitted
C6_Witness ==
    /\ last.placed /\ ~last.is_closing
    /\ last.order.size * last.px = min_notional_usd * 100 * SizeScale

\* C7: after any sequence of Open events of one symbol the position they
\* built, valued at the target prices of the fills, is at most
\* max_position_usd.
C7_PositionCapped ==
    \A c \in Coins : open_run[c] <= config.max_position_usd * 100 * SizeScale

\* an event the coin filter must drop when the filter is on with allow-set
\* coins: it passed the target and duplicate filters and its coin is not allowed
FilterStep(coins) ==
    /\ Delivered
    /\ last'.is_target /\ last'.outcome # "duplicate"
    /\ last'.coin \notin coins

Ignored ==
    /\ ~last'.placed
    /\ open_positions' = open_positions
    /\ exchange_positions' = exchange_positions
    /\ orders_sent' = orders_sent

\* C8 as stated: with the mode ENABLED, for every allow-set, the empty one
\* included, an event whose symbol is not in the allow-set is ignored (no
\* order, ledger unchanged); with the mode ALL no event is dropped by the
\* coin filter.
C8_EveryAllowSetFilters ==
    /\ [](config.coin_filter_mode = "ALL" => last.outcome # "coin_filter")
    /\ [][(config.coin_filter_mode = "ENABLED" /\ FilterStep(config.enabled_coins))
            => Ignored]_vars

\* C8 as amended: with the mode ENABLED and a non-empty allow-set an event
\* whose symbol is not in the allow-set is ignored (no order, ledger
\* unchanged), Open or Close; with the mode ALL, or ENABLED with an empty
\* allow-set, no event is dropped by the coin filter.
C8_NonEmptyAllowSetFilters ==
    /\ []((config.coin_filter_mode = "ALL" \/ config.enabled_coins = {})
            => last.outcome # "coin_filter")
    /\ [][(config.coin_filter_mode = "ENABLED" /\ config.enabled_coins # {}
            /\ FilterStep(config.enabled_coins))
            => Ignored /\ last'.outcome = "coin_filter"]_vars

\* a Close of a coin outside the allow-set was dropped while the ledger is not
\* empty
C8_Witness ==
    /\ config.coin_filter_mode = "ENABLED"
    /\ last.outcome = "coin_filter"
    /\ last.coin \notin config.enabled_coins
    /\ last.is_closing
    /\ open_positions # EmptyLedger

\* the outcomes of the Open handling: its gate, its sizing, its order
OpenHandling == {"max_positions"} \cup SizedOutcomes

\* C9: with a non-empty direction the action is Close exactly when the
\* direction starts with "Close"; an event whose non-empty direction starts
\* with neither "Close" nor "Open" is never handled as an Open.
C9_OnlyOpenIsOpened ==
    (LastPastDedup /\ last.dir # StrEmpty) =>
        /\ last.is_closing <=> StartsWith(last.dir, StrClose)
        /\ (~StartsWith(last.dir, StrClose) /\ ~StartsWith(last.dir, StrOpen))
              => last.outcome \notin OpenHandling

\* the ledger a live call holds when the order response arrives: the entry
\* ledger, resynced before a close
BeforeResponse ==
    IF last'.pre_sync = "ok" THEN Snapshot(exchange_positions) ELSE open_positions

ErrorStep == Live /\ Delivered /\ last'.placed /\ last'.outcome = "error"

\* the order counters after the one call of the last event
OneOrderSent == orders_sent' = [orders_sent EXCEPT ![last'.key] = 1]

Failures == {"api_fail", "exception"}

\* a live order call that failed as a whole
FailStep == Live /\ Delivered /\ last'.placed /\ last'.outcome \in Failures

\* C12: when the order-placement call raises or returns a non-ok status the
\* ledger stays as it was before the call (no local update, no resync), the
\* event causes no second call, and the engine is ready for the next event.
C12_FailedCallLeavesLedger ==
    /\ [][FailStep =>
            /\ open_positions' = BeforeResponse
            /\ last'.after_response = BeforeResponse
            /\ last'.post_sync = "none"
            /\ exchange_positions' = exchange_positions
            /\ OneOrderSent
            /\ running']_vars
    /\ []((last.outcome \in Failures /\ n_delivered < MaxEvents)
            => ENABLED ProcessFill)

\* an opening call failed while the ledger differs from the exchange
\* snapshot, and the stream has an event left
C12_Witness ==
    /\ Live /\ last.placed /\ ~last.is_closing /\ last.outcome \in Failures
    /\ open_positions # Snapshot(exchange_positions)
    /\ n_delivered < MaxEvents

RECURSIVE OrdersOf(_)
OrdersOf(keys) ==
    IF keys = {} THEN 0
    ELSE LET k == CHOOSE x \in keys : TRUE
         IN  orders_sent[k] + OrdersOf(keys \ {k})

\* C13: whatever the responses, each fill key causes at most one
\* order-placement call and only after it was recorded, so the orders sent
\* never outnumber the distinct processed keys.
C13_NoRetry ==
    /\ \A k \in Keys : orders_sent[k] <= 1
    /\ \A k \in Keys : orders_sent[k] = 1 => k \in processed_fills
    /\ OrdersOf(Keys) <= Cardinality(processed_fills)

\* the order of the second key was rejected or failed, and each of the two
\* keys has caused exactly one call
C13_Witness ==
    /\ last.placed /\ last.outcome \in Failures \cup {"error"}
    /\ Cardinality(processed_fills) = 2
    /\ OrdersOf(Keys) = 2

\* C14: a malformed item of the stream is skipped and the engine keeps
\* running: the stream loop ends on the operator's signal only.
C14_MalformedIsSkipped == ~running => reported # NotReported

\* C15: an event handled as an Open for a symbol that is not in the ledger
\* is rejected (no order, ledger unchanged) whenever the ledger holds at
\* least max_open_positions entries; an Open for a symbol in the ledger, and
\* any Close, is never rejected by the position-count rule.
C15_PositionCountRule ==
    [][(Delivered /\ last'.is_target /\ last'.outcome # "duplicate") =>
         LET absent == last'.coin \notin DOMAIN open_positions
             full == Cardinality(DOMAIN open_positions) >= config.max_open_positions
         IN  /\ (~last'.is_closing /\ absent /\ full) =>
                   /\ last'.outcome \in {"coin_filter", "max_positions"}
                   /\ Ignored
             /\ (last'.is_closing \/ ~absent \/ ~full) =>
                   last'.outcome # "max_positions"]_vars

\* an Open of a second symbol was rejected with the ledger exactly full
C15_Witness ==
    /\ last.outcome = "max_positions"
    /\ last.coin \notin DOMAIN open_positions
    /\ Cardinality(DOMAIN open_positions) = config.max_open_positions

\* C16: in dry-run mode no order is placed on the exchange and no account,
\* position or metadata query is made (the size is computed from the fixed
\* account value with the default decimals, no sync runs); the ledger changes
\* only by the local simulation: an Open adds the signed computed size to the
\* entry, a Close removes the entry.
C16_DryRunIsLocal ==
    /\ [](config.dry_run =>
            /\ \A k \in Keys : orders_sent[k] = 0
            /\ ~last.placed
            /\ last.pre_sync = "none" /\ last.post_sync = "none"
            /\ exchange_positions = [c \in Coins |-> 0]
            /\ (last.outcome = "dry_run" /\ ~last.is_closing) =>
                  last.order.size =
                      RoundSizeTo(DefaultSzDecimals,
                                  Min(DryRunAccountValue * config.copy_percentage,
                                      config.max_position_usd * 100),
                                  last.px))
    /\ [][(config.dry_run /\ Delivered) =>
            open_positions' =
                IF last'.outcome # "dry_run" THEN open_positions
                ELSE IF last'.is_closing THEN Del(open_positions, last'.coin)
                ELSE Put(open_positions, last'.coin,
                         Get(open_positions, last'.coin)
                           + (IF last'.order.is_buy THEN last'.order.size
                                                    ELSE -last'.order.size))]_vars

\* a simulated Close removed the entry a simulated Open had added
C16_Witness ==
    /\ config.dry_run /\ last.outcome = "dry_run" /\ last.is_closing
    /\ last.coin \notin DOMAIN open_positions
    /\ n_delivered = 2

\* C18: an event whose address differs from the target's after lower-casing
\* changes neither the processed keys nor the ledger and submits no order;
\* an event whose address equals the target's up to letter case is not
\* dropped by the wallet filter.
C18_WalletFilter ==
    [][(Delivered /\ last_wallet' # <<>>) =>
         IF Lower(last_wallet') # Lower(TargetWallet)
             THEN /\ last'.outcome = "not_target"
                  /\ processed_fills' = processed_fills
                  /\ Ignored
             ELSE last'.outcome # "not_target"]_vars

\* an event with the target's address in another letter case led to an order
C18_Witness ==
    /\ last_wallet # TargetWallet
    /\ Lower(last_wallet) = Lower(TargetWallet)
    /\ last.placed

\* C20: the count printed on the shutdown signal is the number of distinct
\* fill keys the target's events have carried: a key delivered more than
\* once counts once, events of other accounts do not count.
C20_ReportedCount ==
    reported # NotReported => reported = Cardinality(seen)

\* the signal came after a key was delivered twice
C20_Witness ==
    /\ reported = 1
    /\ n_delivered = 2
    /\ last.outcome = "duplicate"

\* the open size as a function of the account value (USD), the copy
\* percentage, the target price (cents) and the size decimals, under the
\* static limits: [skip, size]
OpenSizeOf(value, percentage, px, decimals) ==
    LET capped == Min(value * percentage, config.max_position_usd * 100)
        units == Pow10(DefaultSzDecimals - decimals)
        size == RoundHalfEven(capped * Pow10(decimals), px) * units
    IN  IF capped < config.min_position_usd * 100 THEN [skip |-> TRUE, size |-> 0]
        ELSE IF size * px < min_notional_usd * 100 * SizeScale
            THEN [skip |-> TRUE, size |-> size]
        ELSE [skip |-> FALSE, size |-> size]

\* C19: the skip decision and the rounded size of calculate_position_size
\* are the same function of the account value, the copy percentage, the
\* target price and the size decimals in every state: the ledger, the
\* processed keys and the events before have no part in it.
C19_SizingIsAFunctionOfItsInputs ==
    sized # NoSizing =>
        LET expected == OpenSizeOf(sized.value, config.copy_percentage,
                                   sized.px, sized.decimals)
        IN  /\ sized.result.skip = expected.skip
            /\ sized.result.size = expected.size

\* a size was computed while the ledger holds the coin and keys were processed
C19_Witness ==
    /\ sized # NoSizing /\ ~sized.result.skip
    /\ sized.coin \in DOMAIN open_positions
    /\ processed_fills # {}

\* C17: the loop takes an event only when the handling of the one before
\* is complete (no event recorded and undecided, no order call outstanding);
\* the processed keys change only at that point, the ledger and the order
\* counters only on behalf of the event being handled; no two order calls
\* are ever in flight.
C17_OneEventAtATime ==
    /\ [](in_flight <= 1)
    /\ [](in_flight = 1 <=> pc = "submitted")
    /\ [][(Delivered \/ processed_fills' # processed_fills)
            => pc = "idle" /\ in_flight = 0]_vars
    /\ [][(pc # "idle") =>
            /\ n_delivered' = n_delivered
            /\ processed_fills' = processed_fills
            /\ pending'.fill \in {pending.fill, NoPending.fill}]_vars

\* the order of the first event is in flight while the stream holds more
C17_Witness ==
    /\ pc = "submitted" /\ in_flight = 1
    /\ n_delivered < MaxEvents

\* the calls of StatsAggregator.process_fill that returned the address
AcceptedFor(a) ==
    {t \in Writers : calls[t].pc = "returned" /\ calls[t].result = a}

\* the calls that got past the parsing with an address in the set
CallsFor(addresses) ==
    {t \in Writers : calls[t].pc # "idle" /\ calls[t].builder_address \in addresses}

UsersOf(S) ==
    {Lower(calls[t].user_address) : t \in {u \in S : calls[u].user_address # None}}

\* trades, volume, fees and users are those of the fills of S, all four
TotalsOf(S, trades, volume, fees, users) ==
    /\ trades = Cardinality(S)
    /\ volume = RoundToStep(SumOf([t \in Writers |-> calls[t].volume_usd], S))
    /\ fees = RoundToStep(SumOf([t \in Writers |-> calls[t].builder_fee], S))
    /\ users = Cardinality(UsersOf(S))

\* what a read returned is made of whole fills
WholeFills(read) ==
    IF read.method = "get_all_stats"
        THEN \A a \in DOMAIN read.data :
                \E S \in SUBSET CallsFor({a}) :
                    TotalsOf(S, read.data[a].tradeCount, read.data[a].totalVolumeUsd,
                             read.data[a].totalFeesUsd, read.data[a].uniqueUsers)
    ELSE IF read.method = "get_chart_data"
        THEN /\ \A a \in DOMAIN read.builders :
                    \E S \in SUBSET CallsFor({a}) :
                        TotalsOf(S, read.builders[a].trades, read.builders[a].volume,
                                 read.builders[a].fees, read.builders[a].users)
             /\ \E S \in SUBSET CallsFor({Lower(b) : b \in BuilderAddresses} \ BUILDERS) :
                    TotalsOf(S, read.other.trades, read.other.volume,
                             read.other.fees, read.other.users)
             /\ \E S \in SUBSET CallsFor({Lower(b) : b \in BuilderAddresses}) :
                    TotalsOf(S, Cardinality(S), read.totals.volume,
                             read.totals.fees, read.totals.users)
    ELSE TRUE

\* C21: whatever the interleaving of the threads, whenever no call is inside
\* the locked section each address has a trade count equal to the number of
\* calls that returned it, the entries are keyed by the lower-cased address
\* (one entry per address), and every get_all_stats / get_chart_data result
\* is made of whole fills: a trade is never counted without its volume, its
\* fee and its user.
C21_AggregatorIsThreadSafe ==
    /\ _lock = NoThread =>
         \A a \in {Lower(b) : b \in BuilderAddresses} :
            Cardinality(AcceptedFor(a)) =
                IF a \in DOMAIN builders THEN builders[a].trade_count ELSE 0
    /\ \A a \in DOMAIN builders : Lower(a) = a /\ builders[a].address = a
    /\ \A r \in Readers : WholeFills(reads[r])

\* two threads counted a fill for one builder, a read fell between the two
C21_Witness ==
    /\ \E a \in DOMAIN builders :
         /\ builders[a].trade_count = 2
         /\ \E r \in Readers :
              /\ reads[r].method = "get_chart_data"
              /\ a \in DOMAIN reads[r].builders
              /\ reads[r].builders[a].trades = 1
    /\ \A t \in Writers : calls[t].pc = "returned"

\* the step in which a call of broadcast_liquidation ends
BroadcastEnds ==
    liquidation_broadcast.pc = "awaiting" /\ liquidation_broadcast'.pc = "idle"

\* C22: a call of broadcast_liquidation that has begun to send ends by
\* completing, whoever connected or disconnected while a send was awaited:
\* every client connected from its start to its end got the event or failed,
\* the clients whose send failed are removed and all others stay.
C22_BroadcastSurvivesChanges ==
    [][BroadcastEnds =>
        LET b == liquidation_broadcast'
        IN  /\ b.outcome = "completed"
            /\ (b.at_start \ b.left) \subseteq (b.sent \cup b.disconnected)
            /\ connected_clients' = connected_clients \ b.disconnected]_vars

\* the step in which a call of ConnectionManager.broadcast returns
ManagerBroadcastEnds ==
    manager_broadcast.pc = "awaiting" /\ manager_broadcast'.pc = "idle"

\* C23: when ConnectionManager.broadcast returns, every connection that was
\* active from its start to its end was sent the message (or its send
\* failed), whoever disconnected while a send was awaited, and no connection
\* whose send failed is left in active_connections.
C23_NoActiveClientSkipped ==
    [][ManagerBroadcastEnds =>
        LET b == manager_broadcast'
        IN  /\ (b.at_start \ b.left) \subseteq (b.sent \cup Elements(b.disconnected))
            /\ Elements(b.disconnected) \cap Elements(active_connections') = {}]_vars

\* C24: after any error of the stream or of the processing the task
\* disconnects, waits and connects again: it is never at an end, a failure
\* is always followed by a new connection attempt (given that connect,
\* disconnect and the sleep complete), and the statistics are not changed
\* from the failure to the new attempt.
C24_ReconnectsAfterFailure ==
    /\ [](processor.pc # "terminated")
    /\ [](ENABLED ProcessorNext)
    /\ (processor.pc = "failed") ~> processor.attempted
    /\ [][processor.pc = "failed" => processor'.pc = "waiting" /\ _channel' = "None"]_vars
    /\ [][processor.pc \in {"failed", "waiting", "connecting"} =>
            UNCHANGED <<builders, all_users>>]_vars
    /\ [][processor'.pc = "failed" => UNCHANGED <<builders, all_users>>]_vars

\* connected again after a failure, with statistics from before it
C24_Witness ==
    /\ processor.pc = "streaming" /\ processor.failed_before
    /\ processor.responses = 1
    /\ builders # << >>

\* C25: after a successful resync the ledger holds exactly the symbols the
\* exchange snapshot has with a nonzero size, each with the snapshot's signed
\* size: whatever the ledger held before (entries of symbols the snapshot
\* lacks, local updates of another size) is gone.
C25_ResyncReplacesLedger ==
    resynced.outcome = "ok" =>
        /\ DOMAIN open_positions = {c \in Coins : exchange_positions[c] # 0}
        /\ \A c \in DOMAIN open_positions : open_positions[c] = exchange_positions[c]

\* a resync dropped one entry and replaced the size of another
C25_Witness ==
    /\ resynced.outcome = "ok"
    /\ \E c \in DOMAIN resynced.before : c \notin DOMAIN open_positions
    /\ \E c \in DOMAIN resynced.before :
         c \in DOMAIN open_positions /\ open_positions[c] # resynced.before[c]

\* the last event made a live opening order whose call returned status ok
OpenSubmitted ==
    /\ Live /\ last.placed /\ ~last.is_closing
    /\ last.outcome \in {"filled", "error"}

\* C26: in live mode, when the call of an opening order has returned with
\* status ok, a resync has run by the time the next event is taken, and if
\* its snapshot read succeeded the ledger the next event meets is the
\* exchange snapshot as it is after that order.
C26_ResyncAfterOpen ==
    OpenSubmitted =>
        /\ last.post_sync \in SyncOutcomes
        /\ last.post_sync = "ok" => open_positions = Snapshot(exchange_positions)

\* the resync after a filled Open replaced the locally updated ledger, and
\* the stream holds another event
C26_Witness ==
    /\ OpenSubmitted /\ last.outcome = "filled" /\ last.post_sync = "ok"
    /\ open_positions # last.after_response
    /\ n_delivered < MaxEvents

\* a live order the exchange reported as filled, in full or in part
FilledStep == Live /\ Delivered /\ last'.placed /\ last'.outcome = "filled"

\* the size the exchange reported, positive for a buy, negative for a sell
SignedFilled ==
    IF last'.order.is_buy THEN last'.order.filled ELSE -last'.order.filled

\* C27: when the exchange reports a fill, the ledger after the response has,
\* for an Open, the entry of the symbol at its value before (0 if it had
\* none) plus the signed size the exchange reported, and, for a Close, no
\* entry of the symbol at all, however much was filled; the entries of the
\* other symbols are as before.
C27_FillUpdatesLedger ==
    [][FilledStep =>
        LET before == BeforeResponse
            after == last'.after_response
            coin == last'.coin
        IN  /\ \A c \in Coins \ {coin} :
                 /\ c \in DOMAIN after <=> c \in DOMAIN before
                 /\ c \in DOMAIN after => after[c] = before[c]
            /\ IF last'.is_closing
                  THEN coin \notin DOMAIN after
                  ELSE /\ coin \in DOMAIN after
                       /\ after[coin] =
                            (IF coin \in DOMAIN before THEN before[coin] ELSE 0)
                              + SignedFilled]_vars

\* a Close was filled for less than the size requested and the entry is gone
\* while the exchange still holds the rest
C27_Witness ==
    /\ Live /\ last.placed /\ last.is_closing /\ last.outcome = "filled"
    /\ last.order.filled < last.order.size
    /\ last.coin \notin DOMAIN last.after_response
    /\ exchange_positions[last.coin] # 0

\* the tick of the priced coin in cents: its tickSize, one cent off the
\* metadata
TickOf(coin) == IF coin \in DOMAIN coin_metadata THEN tick_size(coin) ELSE 1

\* a price of num/den cents rounded to the tick of the priced coin
tickRound(num, den) ==
    RoundHalfEven(num, den * TickOf(priced.coin)) * TickOf(priced.coin)

\* C28: the limit price of an Open order is the tick-rounded target price
\* raised by the slippage tolerance when buying and lowered by it when
\* selling, and the tick-rounded target price itself when the tolerance is
\* 0; so a buy limit is never below and a sell limit never above the
\* tick-rounded target price.
C28_OpenLimitPrice ==
    (priced # NoPricing /\ ~priced.is_closing) =>
        LET t == config.slippage_tolerance_bp
            target == tickRound(priced.num, priced.den)
        IN  /\ priced.order_price =
                 IF t = 0 THEN target
                 ELSE IF priced.is_buy
                     THEN tickRound(priced.num * (10000 + t), priced.den * 10000)
                     ELSE tickRound(priced.num * (10000 - t), priced.den * 10000)
            /\ priced.is_buy => priced.order_price >= target
            /\ ~priced.is_buy => priced.order_price <= target

\* an opening sell priced below the target's price
C28_Witness ==
    /\ priced # NoPricing /\ ~priced.is_closing /\ ~priced.is_buy
    /\ config.slippage_tolerance_bp > 0
    /\ priced.order_price < tickRound(priced.num, priced.den)

\* C29: the limit price of a Close order is the tick-rounded target price,
\* whatever the slippage tolerance and whatever the side.
C29_CloseLimitPrice ==
    (priced # NoPricing /\ priced.is_closing) =>
        priced.order_price = tickRound(priced.num, priced.den)

\* a closing buy under a tolerance that would have raised an opening one,
\* at a target price that is no whole tick
C29_Witness ==
    /\ priced # NoPricing /\ priced.is_closing /\ priced.is_buy
    /\ config.slippage_tolerance_bp > 0
    /\ priced.order_price * priced.den # priced.num
    /\ tickRound(priced.num * (10000 + config.slippage_tolerance_bp),
                 priced.den * 10000) # priced.order_price

\* C30: every order sent to the exchange is an IOC order, is reduce-only
\* exactly when its event was classified as closing, and buys exactly when
\* the side of the target's fill is "B"; an order of a closing event never
\* makes the position on the exchange larger or turns it round.
C30_OrderParameters ==
    /\ [](last.placed =>
            /\ last.order.tif = "Ioc"
            /\ last.order.reduce_only <=> last.is_closing
            /\ last.order.is_buy <=> last.side = "B"
            /\ last.order.coin = last.coin)
    /\ [][(Delivered /\ last'.placed /\ last'.is_closing) =>
            LET held == exchange_positions[last'.coin]
                left == exchange_positions'[last'.coin]
            IN  IF held >= 0 THEN 0 <= left /\ left <= held
                             ELSE held <= left /\ left <= 0]_vars

\* a closing event made a reduce-only buy after an opening event made a
\* sell that was not reduce-only
C30_Witness ==
    /\ last.placed /\ last.is_closing /\ last.side = "B"
    /\ last.order.reduce_only /\ last.order.is_buy /\ last.order.filled > 0
    /\ n_delivered = 2

\* the price _round_price is handed, num/den cents as <<n, d>>: the target
\* price shifted by the slippage tolerance for an Open under a tolerance
\* above 0, the target price itself otherwise
AdjustedPrice ==
    LET t == config.slippage_tolerance_bp
    IN  IF priced.is_closing \/ t = 0 THEN <<priced.num, priced.den>>
        ELSE IF priced.is_buy
            THEN <<priced.num * (10000 + t), priced.den * 10000>>
            ELSE <<priced.num * (10000 - t), priced.den * 10000>>

\* C31: the limit price of every order, Open or Close, is a whole multiple
\* of the coin's tick (one cent for a coin without metadata) and no other
\* multiple is nearer to the slippage-adjusted price; the size of an Open of
\* a coin without metadata is rounded to 4 decimals, no other 4-decimal size
\* being nearer to the desired notional over the price.
C31_TickRoundedLimitPrice ==
    /\ priced # NoPricing =>
         LET tick == TickOf(priced.coin)
             adj == AdjustedPrice
         IN  /\ priced.order_price % tick = 0
             /\ 2 * Abs(priced.order_price * adj[2] - adj[1]) <= tick * adj[2]
    /\ (sized # NoSizing /\ sized.coin \notin DOMAIN coin_metadata
            /\ sized.result.reason # "below_min") =>
         LET capped == Min(sized.value * config.copy_percentage,
                           config.max_position_usd * 100)
         IN  /\ sized.decimals = DefaultSzDecimals
             /\ 2 * Abs(sized.result.size * sized.px - capped * SizeScale)
                    <= sized.px

\* a coin without metadata priced 5.345 cents goes out at 5 cents, and an
\* Open of it was sized
C31_Witness ==
    /\ priced # NoPricing /\ priced.coin = SpotCoin
    /\ priced.num = 5345 /\ priced.den = 1000 /\ priced.is_closing
    /\ priced.order_price = 5
    /\ sized # NoSizing /\ sized.coin = SpotCoin /\ ~sized.result.skip

\* desiredNotional in cents: the account value times the copy percentage,
\* at most the maximum position value
DesiredNotional ==
    Min(sized.value * config.copy_percentage, config.max_position_usd * 100)

\* C32: the Open sizing takes min(account value * copy percentage / 100,
\* max position) as the desired notional; below the minimum position value
\* the Open is skipped; otherwise the size is the desired notional over the
\* target price, rounded to the size decimals of the coin (equity 150 at
\* 5 % is skipped; equity 1000 at 5 % and a price of 2000 gives 0.025 at 4
\* decimals).  The target's fill size is no input of the computation.
C32_OpenSizing ==
    sized # NoSizing =>
        LET desired == DesiredNotional
            minimum == config.min_position_usd * 100
            unit == Pow10(DefaultSzDecimals - sized.decimals)
            size == sized.result.size
        IN  /\ desired < minimum =>
                 sized.result.skip /\ sized.result.reason = "below_min"
            /\ desired >= minimum =>
                 /\ sized.result.reason \in {"ok", "below_exchange_min"}
                 /\ size % unit = 0
                 /\ 2 * Abs(size * sized.px - desired * SizeScale)
                        <= sized.px * unit
            /\ (sized.value = 150 /\ config.copy_percentage = 5) =>
                 desired = 750 /\ sized.result.skip
            /\ (sized.value = 1000 /\ config.copy_percentage = 5
                    /\ sized.px = 200000 /\ sized.decimals = 4) =>
                 ~sized.result.skip /\ size = 250

\* equity 1000 at 5 % and a price of 2000 USD sized to 0.025 at 4 decimals
\* while the ledger holds the coin
C32_Witness ==
    /\ sized # NoSizing /\ sized.value = 1000 /\ config.copy_percentage = 5
    /\ sized.px = 200000 /\ sized.decimals = 4
    /\ sized.result.size = 250 /\ ~sized.result.skip
    /\ sized.coin \in DOMAIN open_positions

C34_SizeRoundingHalfUp ==
    (sized # NoSizing /\ sized.result.reason \in {"ok", "below_exchange_min"}) =>
        LET scaled == DesiredNotional * Pow10(sized.decimals)
            unit == Pow10(DefaultSzDecimals - sized.decimals)
            below == scaled \div sized.px
            rest == scaled % sized.px
        IN  sized.result.size =
                IF 2 * rest >= sized.px THEN (below + 1) * unit ELSE below * unit

\* the numeral writes a number other than zero: one of its digits is not 0
NonzeroNumeral(s) ==
    \E i \in 1..Len(s) : s[i] \in {"1", "2", "3", "4", "5", "6", "7", "8", "9"}

\* C35: an event whose direction is missing or empty is a Close exactly
\* when it carries a closedPnl that writes a number other than zero, and an
\* Open otherwise: with no closedPnl, with "0" and with "0.0".
C35_FallbackClassification ==
    (last.outcome = "classified" /\ last.dir = StrEmpty) =>
        LET fill_data == pending.fill
        IN  /\ last.is_closing <=>
                 ("closedPnl" \in DOMAIN fill_data
                      /\ NonzeroNumeral(fill_data.closedPnl))
            /\ ("closedPnl" \notin DOMAIN fill_data) => ~last.is_closing
            /\ ("closedPnl" \in DOMAIN fill_data
                    /\ fill_data.closedPnl \in {<<"0">>, <<"0", ".", "0">>})
                 => ~last.is_closing

\* an event without direction that carries a loss is a Close
C35_Witness ==
    /\ last.outcome = "classified" /\ last.is_closing
    /\ "dir" \notin DOMAIN pending.fill
    /\ "closedPnl" \in DOMAIN pending.fill
    /\ pending.fill.closedPnl = <<"-", "2", ".", "5">>

\* size units at px cents are worth less than min_notional_usd:
\* size * px < min_notional_usd * 100 * SizeScale, the product being avoided
WorthLessThanMin(size, px) ==
    size <= (min_notional_usd * 100 * SizeScale - 1) \div px

C37_ResyncAllOrNothing ==
    /\ resynced.outcome = "ok" => open_positions = Snapshot(exchange_positions)
    /\ resynced.outcome \notin {"none", "ok"} => open_positions = resynced.before

\* C38: in every reachable state, live or dry-run, the ledger has no entry
\* of size zero: a coin the follower is flat in is absent from the ledger,
\* so the entry count of the position gate counts open positions only.
C38_NoZeroLedgerEntry ==
    \A c \in DOMAIN open_positions : open_positions[c] # 0

====
